---------------------------- MODULE Spec2Model ----------------------------
(***************************************************************************)
(* A model of unpkg-fs: the in-memory filesystem of WebFS.ts (nodes,       *)
(* paths, symlink traversal), the dependency installer of VirtualNPM.ts    *)
(* and the CommonJS loader of VirtualNode.ts (resolve, require cache,      *)
(* bootstrap).                                                             *)
(*                                                                         *)
(* Strings are sequences of tokens.  The characters the code inspects      *)
(* ("/", "\\", ".", "@", "+") are tokens of their own; a run of other      *)
(* characters is one token.  'package.json' is <<"package", ".", "json">>. *)
(*                                                                         *)
(* Directories and files live in a heap: `nodes` is a sequence of node     *)
(* records and a node's identity is its index, so that two entries holding *)
(* the same object can be told from two entries holding equal objects.     *)
(* Symlinks are immutable {type, content} values whose identity the code   *)
(* never observes; an entry holds them by value.  A directory's content    *)
(* maps names to references: a heap index, or such a value.                *)
(***************************************************************************)
EXTENDS Integers, Sequences, FiniteSets, TLC

VARIABLES
  nodes,      \* the heap of VFSDirectory | VFSFile objects
  fsRoot,     \* VFSFileSystem.root of the filesystem under study
  trace,      \* the last filesystem operation and its outcome
  registry,   \* what the remote holds: <<name, version>> -> manifest of the package
  installer,  \* "fresh" (VirtualNPM.download) or "cached" (UnpkgFS.download)
  pkgCache,   \* the filesystems the cached installer has handed out: <<name, version>> -> root
  calls,      \* the install calls awaiting their dependencies' promises
  status,     \* the promise of the top-level install: idle, running, fulfilled, rejected
  fetched,    \* package trees downloaded so far
  installs,   \* install calls made so far
  fetchFailed, \* whether a fetchRemote call has failed
  requireCache, \* the require cache of a bootstrap run: key -> module
  modules,    \* the Module objects of the run, in the order of their creation
  stack,      \* the evaluations in progress, innermost last: module and next statement
  booted,     \* bootstrap's outcome: idle, running, returned, threw
  invoked,    \* the module of every call of invoke, in order
  returns     \* what every require call that returned gave, in order

fsVars == <<nodes, fsRoot, trace>>
installVars == <<registry, installer, pkgCache, calls, status, fetched, installs, fetchFailed>>
loadVars == <<requireCache, modules, stack, booted, invoked, returns>>
vars == <<nodes, fsRoot, trace, registry, installer, pkgCache, calls, status, fetched, installs,
          fetchFailed, requireCache, modules, stack, booted, invoked, returns>>

-----------------------------------------------------------------------------
(* Strings *)

SLASH == "/"
BACKSLASH == "\\"
DOT == "."

Str(t) == <<t>>
DOTDOT == <<DOT, DOT>>

StartsWith(s, p) == Len(s) >= Len(p) /\ SubSeq(s, 1, Len(p)) = p
EndsWith(s, p) == Len(s) >= Len(p) /\ SubSeq(s, Len(s) - Len(p) + 1, Len(s)) = p
Includes(s, t) == \E i \in 1..Len(s) : s[i] = t

-----------------------------------------------------------------------------
(* Nodes: makeFile, makeLink, makeDirectory *)

makeFile(content) == [type |-> "file", content |-> content]
makeLink(content) == [type |-> "symlink", content |-> content]
makeDirectory(content) == [type |-> "directory", content |-> content]

\* References to nodes: an object of the heap, or an immutable node held by value
NoVal == [type |-> "none", content |-> <<>>]
Obj(i) == [id |-> i, val |-> NoVal]
Val(node) == [id |-> 0, val |-> node]
NodeAt(heap, ref) == IF ref.id = 0 THEN ref.val ELSE heap[ref.id]

EmptyContent == [n \in {} |-> Obj(0)]

(***************************************************************************)
(* A directory's content is an object. One written `{}` or made by         *)
(* Object.fromEntries inherits the members of Object.prototype, which      *)
(* content[name] and `name in content` find as well; one made by           *)
(* Object.create(null) inherits nothing. CONSTRUCTOR stands for the        *)
(* inherited keys ('constructor', 'toString', 'valueOf', ...), INHERITED   *)
(* for their values, functions without a type field.                       *)
(***************************************************************************)
makeDirectoryOfNull(content) == [type |-> "directory", content |-> content, proto |-> "null"]
CONSTRUCTOR == <<"constructor">>
ObjectPrototypeKeys == { CONSTRUCTOR }
INHERITED == Val([type |-> "function", content |-> <<>>])
Inherits(node) == node.type = "directory" /\ "proto" \notin DOMAIN node

isDir(node) == node.type = "directory"
isFile(node) == node.type = "file"
isLink(node) == node.type = "symlink"

(***************************************************************************)
(* A VFSPath {node, path, name, parent} is the sequence of its ancestors'  *)
(* (name, node) pairs ending with its own: parent is the sequence without  *)
(* its last element (null for a sequence of one element, as makeRoot       *)
(* builds), and the path string is derived as makePath derives it.         *)
(***************************************************************************)
makeRoot(root) == << [name |-> <<>>, node |-> Obj(root)] >>
makePath(node, name, parent) == Append(parent, [name |-> name, node |-> node])

PNode(p) == p[Len(p)].node
PName(p) == p[Len(p)].name
HasParent(p) == Len(p) > 1
PParent(p) == SubSeq(p, 1, Len(p) - 1)

RECURSIVE PathStr(_, _)
PathStr(heap, p) ==
  IF Len(p) = 1 THEN <<SLASH>>
  ELSE PathStr(heap, PParent(p)) \o PName(p)
         \o (IF isDir(NodeAt(heap, PNode(p))) THEN <<SLASH>> ELSE <<>>)

PContent(heap, p) == NodeAt(heap, PNode(p)).content

\* `name in content`, content[name] being truthy with it, and content[name]
HasEntry(heap, p, name) ==
  \/ name \in DOMAIN PContent(heap, p)
  \/ Inherits(NodeAt(heap, PNode(p))) /\ name \in ObjectPrototypeKeys
EntryOf(heap, p, name) ==
  IF name \in DOMAIN PContent(heap, p) THEN PContent(heap, p)[name] ELSE INHERITED

isDirPath(heap, p) == NodeAt(heap, PNode(p)).type = "directory"
isFilePath(heap, p) == NodeAt(heap, PNode(p)).type = "file"
isLinkPath(heap, p) == NodeAt(heap, PNode(p)).type = "symlink"

(***************************************************************************)
(* Outcomes of a call: a Path, null, or a thrown Error with its code.      *)
(* ERANGE stands for the RangeError the engine throws when the call stack  *)
(* is exhausted.                                                           *)
(***************************************************************************)
Ok(p) == [kind |-> "path", path |-> p, code |-> "", named |-> <<>>]
Null == [kind |-> "null", path |-> <<>>, code |-> "", named |-> <<>>]
Err(c) == [kind |-> "error", path |-> <<>>, code |-> c, named |-> <<>>]
\* An Error whose message names a path: `ENOENT: no such file or directory, '<pathname>'`
ErrAt(c, pathname) == [kind |-> "error", path |-> <<>>, code |-> c, named |-> pathname]

IsOk(r) == r.kind = "path"
IsNull(r) == r.kind = "null"
IsErr(r) == r.kind = "error"

MAX_SYMLINK_DEPTH == 20

\* The depth of nested calls the engine's stack holds.
MaxCallDepth == 12

-----------------------------------------------------------------------------
(* decode *)

\* path.indexOf('/', from) skipping every '/' whose preceding character is '\\'
RECURSIVE NextSlash(_, _)
NextSlash(s, from) ==
  IF from > Len(s) THEN 0
  ELSE IF s[from] = SLASH /\ ~(from > 1 /\ s[from - 1] = BACKSLASH) THEN from
  ELSE NextSlash(s, from + 1)

RECURSIVE DecodeFrom(_, _)
DecodeFrom(s, start) ==
  LET pos == NextSlash(s, start)
      part == IF pos = 0 THEN SubSeq(s, start, Len(s)) ELSE SubSeq(s, start, pos - 1)
      out == IF part # <<>> /\ part # <<DOT>> THEN <<part>> ELSE <<>>
  IN IF pos = 0 THEN out ELSE out \o DecodeFrom(s, pos + 1)

decode(path) == DecodeFrom(path, 1)

-----------------------------------------------------------------------------
(* realnode, lfind, lget, get, find *)

RECURSIVE RealnodeLoop(_, _, _, _, _, _)
RECURSIVE LfindLoop(_, _, _, _, _, _, _)

\* lfind's step for the part '..': the parent if there is one, else the Path itself
ParentOrNull(cur) == IF HasParent(cur) THEN Ok(PParent(cur)) ELSE Null
ParentOrSelf(cur) == IF HasParent(cur) THEN Ok(PParent(cur)) ELSE Ok(cur)

\* lfind's step for a name: the entry of the directory, null when it has none
ChildOrThrow(heap, cur, part) ==
  IF HasEntry(heap, cur, part)
  THEN Ok(makePath(EntryOf(heap, cur, part), part, cur))
  ELSE Err("ENOENT")
Child(heap, cur, part) ==
  IF HasEntry(heap, cur, part)
  THEN Ok(makePath(EntryOf(heap, cur, part), part, cur))
  ELSE Null

\* ensureIsDirPath: the Path, or the Error castIfIsDir throws
IgnoreIsDirPath(heap, p) == IF isDirPath(heap, p) THEN Ok(p) ELSE Null
ensureIsDirPath(heap, p) == IF isDirPath(heap, p) THEN Ok(p) ELSE Err("ENOTDIR")

\* lfind's for loop over decode(path), at part number k
LfindLoop(heap, root, current, parts, k, symlinkDepth, fuel) ==
  IF k > Len(parts) THEN Ok(current)
  ELSE
    LET resolved ==
          IF isLinkPath(heap, current)
          THEN IF fuel = 0 THEN Err("ERANGE")
               ELSE RealnodeLoop(heap, root, Ok(current), 0, symlinkDepth, fuel - 1)
          ELSE Ok(current)
    IN IF ~IsOk(resolved) THEN resolved
       ELSE LET cur == resolved.path IN
         IF ~IsOk(ensureIsDirPath(heap, cur)) THEN ensureIsDirPath(heap, cur)
         ELSE LET next == IF parts[k] = DOTDOT THEN ParentOrSelf(cur)
                          ELSE Child(heap, cur, parts[k])
              IN IF ~IsOk(next) THEN next
                 ELSE LfindLoop(heap, root, next.path, parts, k + 1, symlinkDepth, fuel)

LfindD(heap, root, cwd, path, symlinkDepth, fuel) ==
  IF fuel = 0 THEN Err("ERANGE")
  ELSE LfindLoop(heap, root,
                 IF Len(path) > 0 /\ path[1] = SLASH THEN makeRoot(root) ELSE cwd,
                 decode(path), 1, symlinkDepth, fuel - 1)

\* realnode's step: the symlink's content, looked up from the symlink's parent
FollowLinkFromRoot(heap, root, p, fuel) ==
  LfindD(heap, root, makeRoot(root), PContent(heap, p), MAX_SYMLINK_DEPTH, fuel)
FollowLink(heap, root, p, fuel) ==
  LfindD(heap, root, PParent(p), PContent(heap, p), MAX_SYMLINK_DEPTH, fuel)

\* realnode's test `i >= symlinkDepth`
DepthExceededOffByOne(i, symlinkDepth) == i > symlinkDepth
DepthExceeded(i, symlinkDepth) == i >= symlinkDepth

\* realnode's for loop at counter i; r is the current value of `path`
RealnodeLoop(heap, root, r, i, symlinkDepth, fuel) ==
  IF IsOk(r) /\ isLinkPath(heap, r.path)
  THEN IF DepthExceeded(i, symlinkDepth) THEN Err("ECYCLIC")
       ELSE LET next == FollowLink(heap, root, r.path, fuel)
            IN IF IsErr(next) THEN next
               ELSE RealnodeLoop(heap, root, next, i + 1, symlinkDepth, fuel)
  ELSE r

RealnodeD(heap, root, r, symlinkDepth, fuel) ==
  IF IsErr(r) THEN r
  ELSE IF fuel = 0 THEN Err("ERANGE")
  ELSE RealnodeLoop(heap, root, r, 0, symlinkDepth, fuel - 1)

realnode(heap, root, r) == RealnodeD(heap, root, r, MAX_SYMLINK_DEPTH, MaxCallDepth)

lfind(heap, root, cwd, path) == LfindD(heap, root, cwd, path, MAX_SYMLINK_DEPTH, MaxCallDepth)

lget(heap, cwd, name) ==
  IF HasEntry(heap, cwd, name)
  THEN Ok(makePath(EntryOf(heap, cwd, name), name, cwd))
  ELSE Null

get(heap, root, cwd, name) ==
  RealnodeD(heap, root, lget(heap, cwd, name), MAX_SYMLINK_DEPTH, MaxCallDepth - 1)

find(heap, root, cwd, path) ==
  RealnodeD(heap, root, LfindD(heap, root, cwd, path, MAX_SYMLINK_DEPTH, MaxCallDepth - 1),
            MAX_SYMLINK_DEPTH, MaxCallDepth - 1)

-----------------------------------------------------------------------------
(* Filesystems under study *)

FILE_TEXT == [kind |-> "text"]

\* A directory's content from a set of <<name, node>> pairs
Entries(pairs) == [n \in {p[1] : p \in pairs} |-> (CHOOSE p \in pairs : p[1] = n)[2]]

A == Str("a")
B == Str("b")
D == Str("d")
F == Str("f")
L == Str("l")
M == Str("m")
X == Str("x")

\* What the three symlinks of a small tree may hold
LinkTargets ==
  { A, B, F, D, M,
    A \o <<SLASH>> \o X,            \* a/x
    B \o <<SLASH>> \o X,            \* b/x
    D \o <<SLASH>> \o F,            \* d/f
    D \o <<SLASH>> \o L,            \* d/l
    DOTDOT \o <<SLASH>> \o A,       \* ../a
    <<SLASH>> \o D,                 \* /d
    F \o <<SLASH>> \o X }           \* f/x

\* / = { a -> ta, b -> tb, d/ = { f, l -> tl }, f }
SmallTree(ta, tb, tl) ==
  << makeDirectory(Entries({<<A, Val(makeLink(ta))>>, <<B, Val(makeLink(tb))>>,
                            <<D, Obj(2)>>, <<F, Obj(3)>>})),
     makeDirectory(Entries({<<F, Obj(4)>>, <<L, Val(makeLink(tl))>>})),
     makeFile(FILE_TEXT),
     makeFile(FILE_TEXT) >>

SmallTrees ==
  { SmallTree(ta, tb, tl) :
      ta \in LinkTargets,
      tb \in {A, F, A \o <<SLASH>> \o X},
      tl \in {F, DOTDOT \o <<SLASH>> \o A} }

\* The longest chain of symlinks studied
MaxChain == 22

LinkName(i) == Str("l" \o ToString(i))

\* / = { l1 -> l2, l2 -> l3, ..., ln -> f, f }
ChainTree(n) ==
  << makeDirectory(Entries(
       { <<LinkName(i), Val(makeLink(IF i = n THEN F ELSE LinkName(i + 1)))>> : i \in 1..n }
       \cup {<<F, Obj(2)>>})),
     makeFile(FILE_TEXT) >>

ChainTrees == { ChainTree(n) : n \in 0..MaxChain }

\* Names a directory may bear: plain, holding an escaped separator (`d\/x`), ending with
\* the escape character (`d\`, as mkdirSync('d\\') makes it)
ESCAPED_NAME == <<"d", BACKSLASH, SLASH, "x">>
TRAILING_ESCAPE == <<"d", BACKSLASH>>
DirNames == { D, ESCAPED_NAME, TRAILING_ESCAPE }

\* / = { n/ = { f }, f }
NameTree(n) ==
  << makeDirectory(Entries({<<n, Obj(2)>>, <<F, Obj(3)>>})),
     makeDirectory(Entries({<<F, Obj(4)>>})),
     makeFile(FILE_TEXT),
     makeFile(FILE_TEXT) >>

NameTrees == { NameTree(n) : n \in DirNames }

\* The directories a call may start from: every Path of directories reached by names alone
RECURSIVE DirPathsFrom(_, _, _)
DirPathsFrom(heap, p, depth) ==
  {p} \cup
  IF depth = 0 THEN {}
  ELSE UNION { DirPathsFrom(heap, makePath(PContent(heap, p)[n], n, p), depth - 1) :
               n \in { m \in DOMAIN PContent(heap, p) :
                       isDir(NodeAt(heap, PContent(heap, p)[m])) } }

MaxCwdDepth == 2

Cwds(heap, root) == DirPathsFrom(heap, makeRoot(root), MaxCwdDepth)

\* The specifiers handed to find and lfind
Specifiers ==
  LinkTargets \cup
  { <<>>, DOTDOT, LinkName(1), LinkName(2),
    D \o <<SLASH>> \o L \o <<SLASH>> \o X,           \* d/l/x
    A \o <<SLASH>> \o DOTDOT,                         \* a/..
    DOTDOT \o <<SLASH>> \o DOTDOT,                    \* ../..
    DOTDOT \o <<SLASH>> \o DOTDOT \o <<SLASH>> \o D,   \* ../../d
    <<SLASH>> \o DOTDOT \o <<SLASH>> \o D \o <<SLASH>> \o F,   \* /../d/f
    M \o <<SLASH>> \o X,                              \* m/x
    F \o <<SLASH>> \o DOTDOT,                         \* f/..
    CONSTRUCTOR }

\* The Paths of files and directories reached from p by names alone, crossing no symlink
RECURSIVE PlainPathsFrom(_, _, _)
PlainPathsFrom(heap, p, depth) ==
  {p} \cup
  IF depth = 0 \/ ~isDirPath(heap, p) THEN {}
  ELSE UNION { PlainPathsFrom(heap, makePath(PContent(heap, p)[n], n, p), depth - 1) :
               n \in { m \in DOMAIN PContent(heap, p) :
                       ~isLink(NodeAt(heap, PContent(heap, p)[m])) } }

PlainPaths(heap, root) == PlainPathsFrom(heap, makeRoot(root), MaxCwdDepth)

\* The path strings of these Paths, handed to find as well
PathStrings(heap, root) == { PathStr(heap, p) : p \in PlainPaths(heap, root) }

NoTrace == [op |-> "none", cwd |-> <<>>, spec |-> <<>>, result |-> Null]

InstallIdle ==
  /\ registry = <<>>
  /\ installer = "none"
  /\ pkgCache = <<>>
  /\ calls = <<>>
  /\ status = "idle"
  /\ fetched = 0
  /\ installs = 0
  /\ fetchFailed = FALSE

NotBooted == [state |-> "idle", code |-> ""]

LoadIdle ==
  /\ requireCache = <<>>
  /\ modules = <<>>
  /\ stack = <<>>
  /\ booted = NotBooted
  /\ invoked = <<>>
  /\ returns = <<>>

InitFS ==
  /\ nodes \in SmallTrees \cup ChainTrees \cup NameTrees
  /\ fsRoot = 1
  /\ trace = NoTrace
  /\ InstallIdle
  /\ LoadIdle

Find(cwd, spec) ==
  /\ trace' = [op |-> "find", cwd |-> cwd, spec |-> spec,
               result |-> find(nodes, fsRoot, cwd, spec)]
  /\ UNCHANGED <<nodes, fsRoot>>
  /\ UNCHANGED installVars
  /\ UNCHANGED loadVars

Lfind(cwd, spec) ==
  /\ trace' = [op |-> "lfind", cwd |-> cwd, spec |-> spec,
               result |-> lfind(nodes, fsRoot, cwd, spec)]
  /\ UNCHANGED <<nodes, fsRoot>>
  /\ UNCHANGED installVars
  /\ UNCHANGED loadVars

Realnode(cwd, name) ==
  /\ trace' = [op |-> "realnode", cwd |-> cwd, spec |-> name,
               result |-> realnode(nodes, fsRoot, lget(nodes, cwd, name))]
  /\ UNCHANGED <<nodes, fsRoot>>
  /\ UNCHANGED installVars
  /\ UNCHANGED loadVars

NextFS ==
  \/ \E cwd \in Cwds(nodes, fsRoot), spec \in Specifiers \cup PathStrings(nodes, fsRoot) :
       Find(cwd, spec)
  \/ \E cwd \in Cwds(nodes, fsRoot), spec \in Specifiers : Lfind(cwd, spec)
  \/ \E cwd \in Cwds(nodes, fsRoot) :
       \E name \in DOMAIN PContent(nodes, cwd) : Realnode(cwd, name)

SpecFS == InitFS /\ [][NextFS]_vars

-----------------------------------------------------------------------------
(* Packages and the remote *)

AT == "@"
PLUS == "+"
NODE_MODULES == Str("node_modules")
PACKAGE_JSON == <<"package", DOT, "json">>

\* A value of a manifest's browser map: false, or a replacement specifier
Disable == [disabled |-> TRUE, to |-> <<>>]
Replace(to) == [disabled |-> FALSE, to |-> to]
\* A manifest's browser field: absent, a string, or an object given by its entries
\* <<name, value>> in the order of Object.entries
NoBrowser == [type |-> "undefined", str |-> <<>>, entries |-> <<>>]
BrowserString(str) == [type |-> "string", str |-> str, entries |-> <<>>]
BrowserMap(entries) == [type |-> "object", str |-> <<>>, entries |-> entries]

\* browser[name] !== false, browser being pkg.browser when that is an object
NotDisabled(browser, name) ==
  ~(browser.type = "object"
    /\ \E i \in 1..Len(browser.entries) :
         browser.entries[i][1] = name /\ browser.entries[i][2].disabled)

\* The parsed package.json: dependencies in the order of Object.entries
Manifest(name, version, dependencies, browser) ==
  [name |-> name, version |-> version, main |-> <<>>,
   dependencies |-> dependencies, browser |-> browser]

JsonFile(value) == makeFile([kind |-> "json", value |-> value])

\* The tree of a package as the remote serves it: / = { package.json }; loadDir makes the
\* content of its directories by Object.create(null)
PackageTree(manifest, at) ==
  << makeDirectoryOfNull(Entries({<<PACKAGE_JSON, Obj(at + 2)>>})), JsonFile(manifest) >>

V1 == Str("1")
V2 == Str("2")
PkgA == <<A, V1>>
PkgB == <<B, V1>>
PkgB2 == <<B, V2>>
PkgC == <<Str("c"), V1>>

\* The dependency graphs studied: a is the root package
Registries ==
  { (PkgA :> Manifest(A, V1, da, ba)) @@
    (PkgB :> Manifest(B, V1, db, NoBrowser)) @@
    (PkgB2 :> Manifest(B, V2, <<>>, NoBrowser)) @@
    (PkgC :> Manifest(Str("c"), V1, dc, NoBrowser)) :
      da \in { <<>>, <<PkgB>>, <<PkgB2>>, <<PkgC>>, <<PkgB, PkgC>> },
      ba \in { NoBrowser, BrowserMap(<< <<Str("c"), Disable>> >>) },
      db \in { <<>>, <<PkgC>>, <<PkgA>>, <<PkgA, PkgC>> },
      dc \in { <<>>, <<PkgA>> } }

\* Whether package key depends on itself through at most depth dependencies
RECURSIVE Reaches(_, _, _, _)
Reaches(reg, from, to, depth) ==
  /\ depth > 0
  /\ \E i \in 1..Len(reg[from].dependencies) :
       LET d == reg[from].dependencies[i]
       IN NotDisabled(reg[from].browser, d[1])
          /\ (d = to \/ Reaches(reg, d, to, depth - 1))

Acyclic(reg) == \A k \in DOMAIN reg : ~Reaches(reg, k, k, Cardinality(DOMAIN reg))

-----------------------------------------------------------------------------
(* install *)

SetEntry(heap, dir, name, ref) ==
  [heap EXCEPT ![dir].content = (name :> ref) @@ @]

\* name.replace(/\//, '+'): the first '/' only
SafeName(name) ==
  IF Includes(name, SLASH)
  THEN LET i == CHOOSE i \in 1..Len(name) :
                  name[i] = SLASH /\ \A j \in 1..(i - 1) : name[j] # SLASH
       IN [j \in 1..Len(name) |-> IF j = i THEN PLUS ELSE name[j]]
  ELSE name

QualifiedId(name, version) == SafeName(name) \o <<AT>> \o version

\* The graft: the qualified entry, then the alias symlink
GraftWithoutAlias(heap, nm, name, version, node) ==
  SetEntry(heap, PNode(nm).id, QualifiedId(name, version), node)
GraftAliasOnly(heap, nm, name, version, node) ==
  SetEntry(heap, PNode(nm).id, SafeName(name), Val(makeLink(QualifiedId(name, version))))
GraftKeepAlias(heap, nm, name, version, node) ==
  IF SafeName(name) \in DOMAIN heap[PNode(nm).id].content
  THEN GraftWithoutAlias(heap, nm, name, version, node)
  ELSE GraftAliasOnly(GraftWithoutAlias(heap, nm, name, version, node), nm, name, version, node)
Graft(heap, nm, name, version, node) ==
  SetEntry(SetEntry(heap, PNode(nm).id, QualifiedId(name, version), node),
           PNode(nm).id, SafeName(name), Val(makeLink(QualifiedId(name, version))))

Slot(name, version, state, path) ==
  [name |-> name, version |-> version, state |-> state, path |-> path]

\* One dependency's async arrow function up to its first await (or to its end),
\* `installed` being what find(root, nodeModules, id) gave
DepStepAlwaysFetch(heap, nm, dep, installed) ==
  [heap |-> heap, slot |-> Slot(dep[1], dep[2], "pending", <<>>)]
DepStepWith(heap, nm, dep, installed) ==
  IF IsErr(installed)
  THEN [heap |-> heap, slot |-> Slot(dep[1], dep[2], "rejected", <<>>)]
  ELSE IF IsNull(installed)
  THEN [heap |-> heap, slot |-> Slot(dep[1], dep[2], "pending", <<>>)]
  ELSE IF ~isDirPath(heap, installed.path)
  THEN [heap |-> heap, slot |-> Slot(dep[1], dep[2], "rejected", <<>>)]
  ELSE [heap |-> Graft(heap, nm, dep[1], dep[2], PNode(installed.path)),
        slot |-> Slot(dep[1], dep[2], "resolved", installed.path)]

DepStep(heap, root, nm, browser, dep) ==
  IF ~NotDisabled(browser, dep[1])
  THEN [heap |-> heap, slot |-> Slot(dep[1], dep[2], "skipped", <<>>)]
  ELSE DepStepWith(heap, nm, dep, find(heap, root, nm, QualifiedId(dep[1], dep[2])))

\* The map over Object.entries(pkg.dependencies), from dependency number k on
RECURSIVE DepSteps(_, _, _, _, _, _)
DepStepsAfter(step, root, nm, browser, deps, k) ==
  [heap |-> DepSteps(step.heap, root, nm, browser, deps, k).heap,
   slots |-> <<step.slot>> \o DepSteps(step.heap, root, nm, browser, deps, k).slots]
DepSteps(heap, root, nm, browser, deps, k) ==
  IF k > Len(deps) THEN [heap |-> heap, slots |-> <<>>]
  ELSE DepStepsAfter(DepStep(heap, root, nm, browser, deps[k]), root, nm, browser, deps, k + 1)

NoCall == [cwd |-> <<>>, nm |-> <<>>, slots |-> <<>>]
Threw(heap, code) == [heap |-> heap, threw |-> code, call |-> NoCall]

\* install from JSON.parse on, up to its first await
InstallParsed(root, cwd, nodeModules, done) ==
  [heap |-> done.heap, threw |-> "",
   call |-> [cwd |-> cwd, nm |-> nodeModules, slots |-> done.slots]]

\* install from its ensure... tests on
InstallChecked(heap, root, cwd, pkgJson, nodeModules) ==
  IF IsNull(pkgJson) THEN Threw(heap, "ENOENT")
  ELSE IF ~isFilePath(heap, pkgJson.path) THEN Threw(heap, "EISDIR")
  ELSE IF ~isDirPath(heap, nodeModules) THEN Threw(heap, "ENOTDIR")
  ELSE IF PContent(heap, pkgJson.path).kind # "json" THEN Threw(heap, "SyntaxError")
  ELSE InstallParsed(root, cwd, nodeModules,
         DepSteps(heap, root, nodeModules, PContent(heap, pkgJson.path).value.browser,
                  PContent(heap, pkgJson.path).value.dependencies, 1))

\* install from the creation of a missing node_modules on
InstallFound(heap, root, cwd, pkgJson, found) ==
  IF IsErr(pkgJson) THEN Threw(heap, pkgJson.code)
  ELSE IF IsErr(found) THEN Threw(heap, found.code)
  ELSE IF IsNull(found)
  THEN InstallChecked(SetEntry(Append(heap, makeDirectory(EmptyContent)),
                               PNode(cwd).id, NODE_MODULES, Obj(Len(heap) + 1)),
                      root, cwd, pkgJson, makePath(Obj(Len(heap) + 1), NODE_MODULES, cwd))
  ELSE InstallChecked(heap, root, cwd, pkgJson, found.path)

\* install up to its first await: the heap it leaves, the error it threw ("" for none)
\* and the call left awaiting its dependencies
InstallSync(heap, root, cwd) ==
  InstallFound(heap, root, cwd, find(heap, root, cwd, PACKAGE_JSON),
               find(heap, root, cwd, NODE_MODULES))

\* dependencies.map(cwd => cwd && install(root, cwd, installer)), from path number k on
RECURSIVE StartChildren(_, _, _, _)
ChildrenJoin(child, rest) ==
  [heap |-> rest.heap,
   calls |-> (IF child.threw = "" THEN <<child.call>> ELSE <<>>) \o rest.calls,
   threw |-> child.threw # "" \/ rest.threw]
ChildrenAfter(child, root, paths, k) ==
  ChildrenJoin(child, StartChildren(child.heap, root, paths, k))
StartChildren(heap, root, paths, k) ==
  IF k > Len(paths) THEN [heap |-> heap, calls |-> <<>>, threw |-> FALSE]
  ELSE ChildrenAfter(InstallSync(heap, root, paths[k]), root, paths, k + 1)

SlotRejected(call) == \E k \in 1..Len(call.slots) : call.slots[k].state = "rejected"
SlotPending(call) == \E k \in 1..Len(call.slots) : call.slots[k].state = "pending"

\* The Paths a call's Promise.all resolved to, the undefined ones left out
RECURSIVE ResolvedPaths(_, _)
ResolvedPaths(slots, k) ==
  IF k > Len(slots) THEN <<>>
  ELSE (IF slots[k].state = "resolved" THEN <<slots[k].path>> ELSE <<>>)
       \o ResolvedPaths(slots, k + 1)

RemoveAt(seq, i) == SubSeq(seq, 1, i - 1) \o SubSeq(seq, i + 1, Len(seq))

\* Package trees the remote may serve in one run, and install calls one run may make
MaxFetches == 4
MaxInstalls == 6

\* Whether the installer answers from its cache
CacheHit(kind, cache, key) == kind = "cached" /\ key \in DOMAIN cache

\* A promise of the cache: pending, resolved to the FileSystem of root `root`, or rejected
Promise(state, root) == [state |-> state, root |-> root]

\* download(name, version, cache) up to its return: the cache it leaves and the fetches
\* made so far. The fresh installer fetches at every call
DownloadUnshared(kind, key, st) == [cache |-> st.cache, fetched |-> st.fetched + 1]
Download(kind, key, st) ==
  IF CacheHit(kind, st.cache, key) THEN st
  ELSE [cache |-> IF kind = "cached" THEN (key :> Promise("pending", 0)) @@ st.cache
                  ELSE st.cache,
        fetched |-> st.fetched + 1]

\* The installer calls of the arrow functions of one install call, from slot k on, and
\* those of the install calls started together, from call number c on
DownloadFirstSlot(kind, slots, k, st) ==
  IF \E j \in k..Len(slots) : slots[j].state = "pending"
  THEN LET j == CHOOSE j \in k..Len(slots) :
                  /\ slots[j].state = "pending"
                  /\ \A i \in k..(j - 1) : slots[i].state # "pending"
       IN Download(kind, <<slots[j].name, slots[j].version>>, st)
  ELSE st

RECURSIVE DownloadSlots(_, _, _, _)
DownloadSlots(kind, slots, k, st) ==
  IF k > Len(slots) THEN st
  ELSE DownloadSlots(kind, slots, k + 1,
                     IF slots[k].state = "pending"
                     THEN Download(kind, <<slots[k].name, slots[k].version>>, st)
                     ELSE st)

RECURSIVE DownloadCalls(_, _, _, _)
DownloadCalls(kind, started, c, st) ==
  IF c > Len(started) THEN st
  ELSE DownloadCalls(kind, started, c + 1, DownloadSlots(kind, started[c].slots, 1, st))

Issued(st) ==
  /\ st.fetched <= MaxFetches
  /\ pkgCache' = st.cache
  /\ fetched' = st.fetched

\* The tree of a with no package.json
BareTree == << makeDirectory(EmptyContent) >>

\* The tree of a after an earlier install grafted b@version:
\* / = { package.json, node_modules/ = { b@version/ = { package.json }, b -> b@version } }
InstalledTree(manifest, dependency) ==
  << makeDirectoryOfNull(Entries({<<PACKAGE_JSON, Obj(2)>>, <<NODE_MODULES, Obj(3)>>})),
     JsonFile(manifest),
     makeDirectory(Entries({<<QualifiedId(B, dependency.version), Obj(4)>>,
                            <<B, Val(makeLink(QualifiedId(B, dependency.version)))>>})),
     makeDirectoryOfNull(Entries({<<PACKAGE_JSON, Obj(5)>>})),
     JsonFile(dependency) >>

\* The trees install is started on. A version of b that a does not depend on any more was
\* installed completely by the earlier run: it declares no dependencies of its own
RootTrees(reg) ==
  { PackageTree(reg[PkgA], 0), BareTree }
  \cup IF \E i \in 1..Len(reg[PkgA].dependencies) : reg[PkgA].dependencies[i] = PkgB
       THEN { InstalledTree(reg[PkgA], reg[PkgB]), InstalledTree(reg[PkgA], reg[PkgB2]) }
       ELSE IF \E i \in 1..Len(reg[PkgA].dependencies) : reg[PkgA].dependencies[i] = PkgB2
       THEN { InstalledTree(reg[PkgA], Manifest(B, V1, <<>>, NoBrowser)),
              InstalledTree(reg[PkgA], reg[PkgB2]) }
       ELSE {}

InitInstall ==
  /\ registry \in Registries
  /\ installer \in {"fresh", "cached"}
  /\ nodes \in RootTrees(registry)
  /\ fsRoot = 1
  /\ pkgCache \in IF installer = "cached" THEN { <<>>, PkgA :> Promise("resolved", 1) }
                  ELSE { <<>> }
  /\ trace = NoTrace
  /\ calls = <<>>
  /\ status = "idle"
  /\ fetched = 0
  /\ installs = 0
  /\ fetchFailed = FALSE
  /\ LoadIdle

StartInstallWith(r) ==
  /\ nodes' = r.heap
  /\ calls' = IF r.threw = "" THEN <<r.call>> ELSE <<>>
  /\ status' = IF r.threw # "" \/ SlotRejected(r.call) THEN "rejected" ELSE "running"

\* install(root, makeRoot(root), installer), up to its first await
StartInstall ==
  /\ status = "idle"
  /\ StartInstallWith(InstallSync(nodes, fsRoot, makeRoot(fsRoot)))
  /\ Issued(DownloadCalls(installer, calls', 1, [cache |-> pkgCache, fetched |-> fetched]))
  /\ installs' = 1
  /\ UNCHANGED <<fsRoot, trace, registry, installer, fetchFailed>>
  /\ UNCHANGED loadVars

\* What installer(name, version) resolves to: the root of a FileSystem, in `heap`
FetchedOwnRoot(cache, heap, key) == [root |-> 1, heap |-> heap]
Fetched(cache, heap, key) ==
  IF CacheHit(installer, cache, key)
  THEN [root |-> cache[key].root, heap |-> heap]
  ELSE [root |-> Len(heap) + 1, heap |-> heap \o PackageTree(registry[key], Len(heap))]

FetchResolveWith(c, k, slot, fs) ==
  /\ nodes' = Graft(fs.heap, calls[c].nm, slot.name, slot.version, PNode(makeRoot(fs.root)))
  /\ calls' = [calls EXCEPT ![c].slots[k] =
                 Slot(slot.name, slot.version, "resolved", makeRoot(fs.root))]

\* The state of the promise installer(name, version) returned for a slot: the cached
\* promise, or a promise of its own that may settle either way
Settled(slot, state) ==
  \/ installer = "fresh"
  \/ /\ installer = "cached"
     /\ <<slot.name, slot.version>> \in DOMAIN pkgCache
     /\ pkgCache[<<slot.name, slot.version>>].state = state

\* The fetch of a cached download resolves: its promise resolves to a new FileSystem
DownloadResolve(key) ==
  /\ CacheHit(installer, pkgCache, key)
  /\ pkgCache[key].state = "pending"
  /\ nodes' = nodes \o PackageTree(registry[key], Len(nodes))
  /\ pkgCache' = [pkgCache EXCEPT ![key] = Promise("resolved", Len(nodes) + 1)]
  /\ UNCHANGED <<fsRoot, trace, registry, installer, calls, status, fetched, installs,
                 fetchFailed>>
  /\ UNCHANGED loadVars

\* The fetch of a cached download fails: its promise is rejected, and stays in the cache
DownloadReject(key) ==
  /\ CacheHit(installer, pkgCache, key)
  /\ pkgCache[key].state = "pending"
  /\ pkgCache' = [pkgCache EXCEPT ![key] = Promise("rejected", 0)]
  /\ fetchFailed' = TRUE
  /\ UNCHANGED <<nodes, fsRoot, trace, registry, installer, calls, status, fetched, installs>>
  /\ UNCHANGED loadVars

\* installer(name, version) resolves for slot k of call c, and the arrow function goes on
FetchResolve(c, k) ==
  /\ calls[c].slots[k].state = "pending"
  /\ Settled(calls[c].slots[k], "resolved")
  /\ FetchResolveWith(c, k, calls[c].slots[k],
       Fetched(pkgCache, nodes, <<calls[c].slots[k].name, calls[c].slots[k].version>>))
  /\ UNCHANGED <<fsRoot, trace, registry, installer, pkgCache, status, fetched, installs,
                 fetchFailed>>
  /\ UNCHANGED loadVars

\* installer(name, version) rejects for slot k of call c: Promise.all rejects, and every
\* install awaiting this one with it
FetchReject(c, k) ==
  /\ calls[c].slots[k].state = "pending"
  /\ Settled(calls[c].slots[k], "rejected")
  /\ calls' = [calls EXCEPT ![c].slots[k].state = "rejected"]
  /\ status' = "rejected"
  /\ fetchFailed' = TRUE
  /\ UNCHANGED <<nodes, fsRoot, trace, registry, installer, pkgCache, fetched, installs>>
  /\ UNCHANGED loadVars

ChildFailed(started) ==
  started.threw \/ \E i \in 1..Len(started.calls) : SlotRejected(started.calls[i])

RecurseWith(c, started) ==
  /\ nodes' = started.heap
  /\ calls' = RemoveAt(calls, c) \o started.calls
  /\ status' = IF ChildFailed(started) THEN "rejected"
               ELSE IF status = "running" /\ Len(calls) = 1 /\ started.calls = <<>>
               THEN "fulfilled"
               ELSE status

\* The Promise.all of call c is fulfilled: install goes on into every dependency, each
\* nested install running up to its first await, and then awaits them
Recurse(c) ==
  /\ ~SlotPending(calls[c])
  /\ ~SlotRejected(calls[c])
  /\ installs + Len(ResolvedPaths(calls[c].slots, 1)) <= MaxInstalls
  /\ RecurseWith(c, StartChildren(nodes, fsRoot, ResolvedPaths(calls[c].slots, 1), 1))
  /\ Issued(DownloadCalls(installer, calls', Len(calls), [cache |-> pkgCache, fetched |-> fetched]))
  /\ installs' = installs + Len(ResolvedPaths(calls[c].slots, 1))
  /\ UNCHANGED <<fsRoot, trace, registry, installer, fetchFailed>>
  /\ UNCHANGED loadVars

NextInstall ==
  \/ StartInstall
  \/ \E c \in 1..Len(calls) : \E k \in 1..Len(calls[c].slots) : FetchResolve(c, k)
  \/ \E c \in 1..Len(calls) : \E k \in 1..Len(calls[c].slots) : FetchReject(c, k)
  \/ \E c \in 1..Len(calls) : Recurse(c)
  \/ \E key \in DOMAIN pkgCache : DownloadResolve(key)
  \/ \E key \in DOMAIN pkgCache : DownloadReject(key)

SpecInstall == InitInstall /\ [][NextInstall]_vars

-----------------------------------------------------------------------------
(* resolve *)

\* The content '' of the files mapBrowser makes up
EMPTY == [kind |-> "js", body |-> <<>>]

\* a || b
OrElse(a, b) == IF IsNull(a) THEN b ELSE a

isFileOrNotFound(heap, r) == IF IsOk(r) /\ ~isFilePath(heap, r.path) THEN Null ELSE r

\* findInPaths consumed up to its first yield, from directory `current` upwards
RECURSIVE FindInPathsFrom(_, _, _, _)
FindInPathsNext(heap, root, current, name, path) ==
  IF ~IsNull(path) THEN path
  ELSE IF HasParent(current) THEN FindInPathsFrom(heap, root, PParent(current), name)
  ELSE Null
FindInPathsFrom(heap, root, current, name) ==
  FindInPathsNext(heap, root, current, name,
                  IF HasEntry(heap, current, name)
                  THEN get(heap, root, current, name) ELSE Null)

findClosest(heap, root, cwd, name) == FindInPathsFrom(heap, root, cwd, name)

\* The object mapBrowser returns: its keys in insertion order, each with its Path or
\* null; err is the code of the Error thrown meanwhile, "" for none
NoMapped == [err |-> "", keys |-> <<>>, vals |-> <<>>]

BrowserKey(heap, name, path) ==
  IF Includes(name, SLASH)
  THEN IF IsOk(path) THEN PathStr(heap, path.path)
       ELSE IF StartsWith(name, <<DOT, SLASH>>) THEN name
       ELSE <<DOT, SLASH>> \o name
  ELSE name

\* The file an entry of the browser object stands for, `target` being what realnode gave
BrowserPath(heap, cwd, name, target) ==
  isFileOrNotFound(heap, OrElse(target, Ok(makePath(Val(makeFile(EMPTY)), name, cwd))))

BrowserTarget(heap, root, cwd, name, value) ==
  realnode(heap, root,
           Ok(makePath(IF value.disabled THEN Val(makeFile(EMPTY)) ELSE Val(makeLink(value.to)),
                       name, cwd)))

RECURSIVE MapBrowserFrom(_, _, _, _, _)
MapBrowserJoin(heap, name, path, rest) ==
  IF IsErr(path) THEN [err |-> path.code, keys |-> <<>>, vals |-> <<>>]
  ELSE IF rest.err # "" THEN rest
  ELSE [err |-> "", keys |-> <<BrowserKey(heap, name, path)>> \o rest.keys,
        vals |-> <<path>> \o rest.vals]
MapBrowserFrom(heap, root, cwd, entries, k) ==
  IF k > Len(entries) THEN NoMapped
  ELSE MapBrowserJoin(heap, entries[k][1],
         BrowserPath(heap, cwd, entries[k][1],
                     BrowserTarget(heap, root, cwd, entries[k][1], entries[k][2])),
         MapBrowserFrom(heap, root, cwd, entries, k + 1))

mapBrowser(heap, root, cwd, browser) ==
  IF browser.type = "object" THEN MapBrowserFrom(heap, root, cwd, browser.entries, 1)
  ELSE NoMapped

\* browser[key], null when there is none: of two entries under one key the later stands
Intercepted(browser, key) ==
  IF \E i \in 1..Len(browser.keys) : browser.keys[i] = key
  THEN browser.vals[CHOOSE i \in 1..Len(browser.keys) :
                      /\ browser.keys[i] = key
                      /\ \A j \in (i + 1)..Len(browser.keys) : browser.keys[j] # key]
  ELSE Null

\* The reader createReader returns, applied to path
ReadFound(heap, browser, found) ==
  IF IsOk(found) /\ IsOk(Intercepted(browser, PathStr(heap, found.path)))
  THEN Intercepted(browser, PathStr(heap, found.path))
  ELSE found
Read(heap, root, cwd, browser, path) ==
  IF IsOk(Intercepted(browser, path)) THEN Intercepted(browser, path)
  ELSE ReadFound(heap, browser, find(heap, root, cwd, path))

JS == <<DOT, "js">>
JSON == <<DOT, "json">>
INDEX_JS == <<"index", DOT, "js">>
INDEX_JSON == <<"index", DOT, "json">>

loadAsFile(heap, root, cwd, browser, path) ==
  isFileOrNotFound(heap,
    OrElse(Read(heap, root, cwd, browser, path),
           OrElse(Read(heap, root, cwd, browser, path \o JS),
                  Read(heap, root, cwd, browser, path \o JSON))))

loadAsIndex(heap, root, cwd, browser, path) ==
  isFileOrNotFound(heap,
    OrElse(Read(heap, root, cwd, browser, path \o <<SLASH>> \o INDEX_JS),
           Read(heap, root, cwd, browser, path \o <<SLASH>> \o INDEX_JSON)))

\* requested || (typeof pkg.browser === 'string' ? pkg.browser : pkg.main) || 'index.js'
MainOf(pkg, requested) ==
  IF requested # <<>> THEN requested
  ELSE IF pkg.browser.type = "string" /\ pkg.browser.str # <<>> THEN pkg.browser.str
  ELSE IF pkg.browser.type # "string" /\ pkg.main # <<>> THEN pkg.main
  ELSE INDEX_JS

\* loadAsDirectoryPackage once the manifest is parsed and its browser object mapped
LoadMain(heap, root, cwd, browser, main) ==
  IF browser.err # "" THEN Err(browser.err)
  ELSE OrElse(loadAsFile(heap, root, cwd, browser, main),
              loadAsIndex(heap, root, cwd, browser, main))

LoadManifest(heap, root, cwd, requested, pkgFile) ==
  IF ~IsOk(pkgFile) THEN pkgFile
  ELSE IF ~isFilePath(heap, pkgFile.path) THEN Err("EISDIR")
  ELSE IF PContent(heap, pkgFile.path).kind # "json" THEN Err("SyntaxError")
  ELSE LoadMain(heap, root, cwd,
                mapBrowser(heap, root, PParent(pkgFile.path),
                           PContent(heap, pkgFile.path).value.browser),
                MainOf(PContent(heap, pkgFile.path).value, requested))

loadAsDirectoryPackage(heap, root, cwd, requested) ==
  LoadManifest(heap, root, cwd, requested, get(heap, root, cwd, PACKAGE_JSON))

LoadTargetDir(heap, root, cwd, browser, path, targetDir) ==
  IF IsErr(targetDir) THEN targetDir
  ELSE IF IsOk(targetDir) /\ isDirPath(heap, targetDir.path)
  THEN OrElse(loadAsIndex(heap, root, cwd, browser, path),
              loadAsDirectoryPackage(heap, root, targetDir.path, <<>>))
  ELSE Null

loadAsDirectory(heap, root, cwd, browser, path) ==
  LoadTargetDir(heap, root, cwd, browser, path, find(heap, root, cwd, path))

\* The first '/' of s from position `from` on, 0 when there is none
RECURSIVE IndexOfSlash(_, _)
IndexOfSlash(s, from) ==
  IF from > Len(s) THEN 0
  ELSE IF s[from] = SLASH THEN from
  ELSE IndexOfSlash(s, from + 1)

\* ([^@\/]+)(?:\/(.+))?$ matched against s from position `from` on, the '/' found at `cut`
MatchName(s, from, cut) ==
  LET pkgName == IF cut = 0 THEN SubSeq(s, from, Len(s)) ELSE SubSeq(s, from, cut - 1)
  IN /\ pkgName # <<>>
     /\ ~Includes(pkgName, AT)
     /\ cut # 0 => cut < Len(s)

\* /^(?:(@[^\/]+)\/)?([^@\/]+)(?:\/(.+))?$/.exec(id) || [id, id, '', '']
Unmatched(id) == [namespace |-> id, pkgName |-> <<>>, modulePath |-> <<>>]
Matched(id, scopeEnd, cut) ==
  [namespace |-> SubSeq(id, 1, scopeEnd - 1),
   pkgName |-> IF cut = 0 THEN SubSeq(id, scopeEnd + 1, Len(id))
               ELSE SubSeq(id, scopeEnd + 1, cut - 1),
   modulePath |-> IF cut = 0 THEN <<>> ELSE SubSeq(id, cut + 1, Len(id))]
ParseScoped(id, scopeEnd) ==
  IF scopeEnd > 2 /\ MatchName(id, scopeEnd + 1, IndexOfSlash(id, scopeEnd + 1))
  THEN Matched(id, scopeEnd, IndexOfSlash(id, scopeEnd + 1))
  ELSE Unmatched(id)
ParseId(id) ==
  IF id # <<>> /\ id[1] = AT THEN ParseScoped(id, IndexOfSlash(id, 1))
  ELSE IF MatchName(id, 1, IndexOfSlash(id, 1)) THEN Matched(id, 0, IndexOfSlash(id, 1))
  ELSE Unmatched(id)

PackageName(parsed) ==
  IF parsed.namespace # <<>> THEN parsed.namespace \o <<PLUS>> \o parsed.pkgName
  ELSE parsed.pkgName

\* loadAsPackage's loop over findInPaths(root, cwd, 'node_modules'), from `current` upwards
RECURSIVE LoadAsPackageFrom(_, _, _, _, _)
LoadPkgDir(heap, root, current, browser, parsed, pkgDir) ==
  IF IsErr(pkgDir) THEN pkgDir
  ELSE IF IsOk(pkgDir) /\ isDirPath(heap, pkgDir.path)
  THEN loadAsDirectoryPackage(heap, root, pkgDir.path, parsed.modulePath)
  ELSE IF HasParent(current) THEN LoadAsPackageFrom(heap, root, PParent(current), browser, parsed)
  ELSE Null
LoadNodeModules(heap, root, current, browser, parsed, nodeModules) ==
  IF IsErr(nodeModules) THEN nodeModules
  ELSE IF IsOk(nodeModules) /\ isDirPath(heap, nodeModules.path)
  THEN IF IsOk(Intercepted(browser, parsed.pkgName)) THEN Intercepted(browser, parsed.pkgName)
       ELSE LoadPkgDir(heap, root, current, browser, parsed,
                       get(heap, root, nodeModules.path, PackageName(parsed)))
  ELSE IF HasParent(current) THEN LoadAsPackageFrom(heap, root, PParent(current), browser, parsed)
  ELSE Null
LoadAsPackageFrom(heap, root, current, browser, parsed) ==
  LoadNodeModules(heap, root, current, browser, parsed,
                  IF NODE_MODULES \in DOMAIN PContent(heap, current)
                  THEN get(heap, root, current, NODE_MODULES) ELSE Null)

loadAsPackage(heap, root, cwd, browser, id) ==
  LoadAsPackageFrom(heap, root, cwd, browser, ParseId(id))

\* /^\.{0,2}\//.test(id)
IsRelative(id) ==
  \/ StartsWith(id, <<SLASH>>)
  \/ StartsWith(id, <<DOT, SLASH>>)
  \/ StartsWith(id, <<DOT, DOT, SLASH>>)

\* castIfPathExists(path, pathname)
Exists(r, pathname) == IF IsNull(r) THEN ErrAt("ENOENT", pathname) ELSE r

ResolveMapped(heap, root, cwd, id, browser) ==
  IF browser.err # "" THEN Err(browser.err)
  ELSE Exists(IF IsRelative(id)
              THEN OrElse(loadAsFile(heap, root, cwd, browser, id),
                          loadAsDirectory(heap, root, cwd, browser, id))
              ELSE loadAsPackage(heap, root, cwd, browser, id),
              id)

\* castIfIsFilePath(...) and JSON.parse
ParsedManifest(heap, pkgFile) ==
  IF IsErr(pkgFile) THEN pkgFile
  ELSE IF ~isFilePath(heap, pkgFile.path) THEN Err("EISDIR")
  ELSE IF PContent(heap, pkgFile.path).kind # "json" THEN Err("SyntaxError")
  ELSE pkgFile

ResolveIn(heap, root, cwd, id, pkgFile) ==
  IF IsErr(pkgFile) THEN pkgFile
  ELSE ResolveMapped(heap, root, cwd, id,
                     mapBrowser(heap, root, PParent(pkgFile.path),
                                PContent(heap, pkgFile.path).value.browser))

resolve(heap, root, cwd, id) ==
  ResolveIn(heap, root, cwd, id,
            ParsedManifest(heap, Exists(findClosest(heap, root, cwd, PACKAGE_JSON), PACKAGE_JSON)))

-----------------------------------------------------------------------------
(* Module, require, bootstrap *)

\* The content of a JavaScript file: the specifiers it requires, in order
Js(body) == [kind |-> "js", body |-> body]

\* Modules one run may create
MaxModules == 8

\* getExtension: from the last '.' of the last name on
RECURSIVE LastIndexOf(_, _, _)
LastIndexOf(s, t, from) ==
  IF from = 0 THEN 0
  ELSE IF s[from] = t THEN from
  ELSE LastIndexOf(s, t, from - 1)

BaseName(path) == SubSeq(path, LastIndexOf(path, SLASH, Len(path)) + 1, Len(path))
ExtensionOf(name) ==
  IF LastIndexOf(name, DOT, Len(name)) = 0 THEN <<>>
  ELSE SubSeq(name, LastIndexOf(name, DOT, Len(name)), Len(name))
getExtension(path) == ExtensionOf(BaseName(path))

\* new Module(..., id, parent)
ModuleBornLoaded(file, filename, parent) ==
  [id |-> filename, filename |-> filename, file |-> file, exports |-> "object",
   loaded |-> TRUE, parent |-> parent, children |-> <<>>]
Module(file, filename, parent) ==
  [id |-> filename, filename |-> filename, file |-> file, exports |-> "object",
   loaded |-> FALSE, parent |-> parent, children |-> <<>>]

\* What invoke does with module m up to the first statement of the file: "throw" with
\* the Error's code, "enter" the file's code (invokeJS), or "done" (invokeJSON)
InvokeExt(heap, file, ext) ==
  IF ext \notin {JS, JSON} THEN [does |-> "throw", code |-> "EEXT"]
  ELSE IF ext = JS
  THEN IF PContent(heap, file).kind = "js" THEN [does |-> "enter", code |-> ""]
       ELSE [does |-> "throw", code |-> "SyntaxError"]
  ELSE IF PContent(heap, file).kind = "json" THEN [does |-> "done", code |-> ""]
       ELSE [does |-> "throw", code |-> "SyntaxError"]

invoke(heap, file) ==
  InvokeExt(heap, file,
            IF getExtension(PathStr(heap, file)) = <<>> THEN JS
            ELSE getExtension(PathStr(heap, file)))

\* filename in requireCache
InCacheNever(cache, filename) == FALSE
InCache(cache, filename) == filename \in DOMAIN cache

Frame(m) == [module |-> m, pc |-> 1]
Top == stack[Len(stack)]
Body(m) == PContent(nodes, modules[m].file).body

\* The modules in evaluation that were made for the file of module m
Active(frames, mods, m) ==
  { frames[i].module : i \in { j \in 1..Len(frames) : mods[frames[j].module].filename = mods[m].filename } }

Returned(frames, mods, m) ==
  [module |-> m, loaded |-> mods[m].loaded, active |-> Active(frames, mods, m)]

Thrown(code) == [state |-> "threw", code |-> code]

\* What a file does besides plain requires: `try { require(id) } catch (e) {}`, and a
\* statement that throws
TRY == "try"
THROW == <<"throw">>
Try(id) == <<TRY>> \o id
IsTry(item) == item # <<>> /\ Head(item) = TRY
IdOf(item) == IF IsTry(item) THEN Tail(item) ELSE item

\* The call stack once an Error thrown by the require call of the top frame has
\* propagated: the frames up to the nearest one whose require is inside a try, which goes
\* on after its catch, or none
RECURSIVE Caught(_)
Caught(frames) ==
  IF frames = <<>> THEN <<>>
  ELSE IF IsTry(PContent(nodes, modules[frames[Len(frames)].module].file).body[frames[Len(frames)].pc])
  THEN [frames EXCEPT ![Len(frames)].pc = @ + 1]
  ELSE Caught(SubSeq(frames, 1, Len(frames) - 1))

Propagated(code) == IF Caught(stack) = <<>> THEN Thrown(code) ELSE booted

\* bootstrap from new Module on, `file` being what resolve gave
BootstrapFile(file, does) ==
  /\ requireCache' = <<>>
  /\ modules' = << IF does.does = "done"
                   THEN [Module(file, PathStr(nodes, file), 0) EXCEPT !.exports = "json", !.loaded = TRUE]
                   ELSE Module(file, PathStr(nodes, file), 0) >>
  /\ invoked' = <<1>>
  /\ stack' = IF does.does = "enter" THEN <<Frame(1)>> ELSE <<>>
  /\ booted' = IF does.does = "throw" THEN Thrown(does.code)
               ELSE IF does.does = "done" THEN [state |-> "returned", code |-> ""]
               ELSE [state |-> "running", code |-> ""]

BootstrapResolved(file) ==
  IF IsErr(file)
  THEN /\ booted' = Thrown(file.code)
       /\ UNCHANGED <<requireCache, modules, stack, invoked>>
  ELSE BootstrapFile(file.path, invoke(nodes, file.path))

BootstrapManifest(main, pkgFile) ==
  IF IsErr(pkgFile)
  THEN /\ booted' = Thrown(pkgFile.code)
       /\ UNCHANGED <<requireCache, modules, stack, invoked>>
  ELSE BootstrapResolved(
         resolve(nodes, fsRoot, makeRoot(fsRoot),
                 <<SLASH>> \o MainOf(PContent(nodes, pkgFile.path).value, main)))

\* bootstrap(fs, { main }), up to the first statement of the entry file
Bootstrap(main) ==
  /\ booted.state = "idle"
  /\ BootstrapManifest(main,
       ParsedManifest(nodes, Exists(findClosest(nodes, fsRoot, makeRoot(fsRoot), PACKAGE_JSON), PACKAGE_JSON)))
  /\ returns' = <<>>
  /\ UNCHANGED <<nodes, fsRoot, trace>>
  /\ UNCHANGED installVars

\* require returns the exports of module m to the file in evaluation
RequireReturns(m) ==
  /\ stack' = [stack EXCEPT ![Len(stack)].pc = @ + 1]
  /\ returns' = Append(returns, Returned(stack, modules, m))
  /\ UNCHANGED <<requireCache, modules, booted, invoked>>

RequireThrows(code) ==
  /\ stack' = Caught(stack)
  /\ booted' = Propagated(code)
  /\ UNCHANGED <<requireCache, modules, invoked, returns>>

\* requireCache[filename] = requiredModule, and requireCache[id] too when id has no '/'
RegisteredByPath(cache, id, filename, m) == (filename :> m) @@ cache
Registered(cache, id, filename, m) ==
  (IF ~Includes(id, SLASH) THEN (id :> m) ELSE <<>>) @@ (filename :> m) @@ cache

\* require's else branch: a new Module for file `resolved`, registered and invoked
RequireNew(id, resolved, filename, m, does) ==
  /\ requireCache' = Registered(requireCache, id, filename, m)
  /\ invoked' = Append(invoked, m)
  /\ modules' = Append([modules EXCEPT ![Top.module].children = Append(@, m)],
                       IF does.does = "done"
                       THEN [Module(resolved, filename, Top.module)
                               EXCEPT !.exports = "json", !.loaded = TRUE]
                       ELSE Module(resolved, filename, Top.module))
  /\ stack' = IF does.does = "throw" THEN Caught(stack)
              ELSE IF does.does = "enter" THEN Append(stack, Frame(m))
              ELSE [stack EXCEPT ![Len(stack)].pc = @ + 1]
  /\ booted' = IF does.does = "throw" THEN Propagated(does.code) ELSE booted
  /\ returns' = IF does.does = "done"
                THEN Append(returns, Returned(stack, modules', m))
                ELSE returns

RequireResolved(id, resolved) ==
  IF IsErr(resolved) THEN RequireThrows(resolved.code)
  ELSE IF InCache(requireCache, PathStr(nodes, resolved.path))
  THEN RequireReturns(requireCache[PathStr(nodes, resolved.path)])
  ELSE RequireNew(id, resolved.path, PathStr(nodes, resolved.path), Len(modules) + 1,
                  invoke(nodes, resolved.path))

\* The file in evaluation calls require(id): up to the return of cached exports, or to
\* the first statement of the required file
Require ==
  /\ booted.state = "running"
  /\ Top.pc <= Len(Body(Top.module))
  /\ Len(modules) < MaxModules
  /\ Body(Top.module)[Top.pc] # THROW
  /\ IF /\ ~Includes(IdOf(Body(Top.module)[Top.pc]), SLASH)
        /\ IdOf(Body(Top.module)[Top.pc]) \in DOMAIN requireCache
     THEN RequireReturns(requireCache[IdOf(Body(Top.module)[Top.pc])])
     ELSE RequireResolved(IdOf(Body(Top.module)[Top.pc]),
            resolve(nodes, fsRoot, PParent(modules[Top.module].file),
                    IdOf(Body(Top.module)[Top.pc])))
  /\ UNCHANGED <<nodes, fsRoot, trace>>
  /\ UNCHANGED installVars

\* The code of the file in evaluation returns: invokeJS marks the module loaded and
\* the require that invoked it returns its exports, or bootstrap returns the module
Return ==
  /\ booted.state = "running"
  /\ Top.pc > Len(Body(Top.module))
  /\ modules' = [modules EXCEPT ![Top.module].loaded = TRUE]
  /\ IF Len(stack) = 1
     THEN /\ stack' = <<>>
          /\ booted' = [state |-> "returned", code |-> ""]
          /\ returns' = returns
     ELSE /\ stack' = [SubSeq(stack, 1, Len(stack) - 1) EXCEPT ![Len(stack) - 1].pc = @ + 1]
          /\ booted' = booted
          /\ returns' = Append(returns,
                               Returned(SubSeq(stack, 1, Len(stack) - 1), modules', Top.module))
  /\ UNCHANGED <<requireCache, invoked>>
  /\ UNCHANGED <<nodes, fsRoot, trace>>
  /\ UNCHANGED installVars

\* The code of the file in evaluation throws: invokeJS does not reach
\* `module.loaded = true`, and the Error goes to the require that invoked the file
Throw ==
  /\ booted.state = "running"
  /\ Top.pc <= Len(Body(Top.module))
  /\ Body(Top.module)[Top.pc] = THROW
  /\ stack' = Caught(SubSeq(stack, 1, Len(stack) - 1))
  /\ booted' = IF stack' = <<>> THEN Thrown("Error") ELSE booted
  /\ UNCHANGED <<requireCache, modules, invoked, returns>>
  /\ UNCHANGED <<nodes, fsRoot, trace>>
  /\ UNCHANGED installVars

\* The specifiers the files under study require
RequireIds ==
  { <<DOT, SLASH>> \o A,                  \* ./a
    <<DOT, SLASH>> \o B,                  \* ./b
    <<DOT, SLASH>> \o A \o JS,            \* ./a.js
    <<DOT, SLASH, "lib">>,                \* ./lib
    <<DOT, SLASH>> \o Str("c") \o JSON,   \* ./c.json
    <<DOT, SLASH, "none">>,               \* ./none
    M }                                   \* m

ShortBodies == {<<>>} \cup { <<i>> : i \in RequireIds }
Bodies == ShortBodies \cup { <<i, j>> : i, j \in RequireIds }

WithMain(manifest, main) == [manifest EXCEPT !.main = main]

\* / = { package.json, a.js, b.js, c.json,
\*       lib/ = { index.js, node_modules/ = { m/ = { package.json, index.js } } },
\*       node_modules/ = { m/ = { package.json, index.js } } }
LoadTree(main, bodyA, bodyB, bodyLib) ==
  << makeDirectory(Entries({<<PACKAGE_JSON, Obj(2)>>, <<A \o JS, Obj(3)>>, <<B \o JS, Obj(4)>>,
                            <<Str("c") \o JSON, Obj(5)>>, <<Str("lib"), Obj(6)>>,
                            <<NODE_MODULES, Obj(8)>>})),
     JsonFile(WithMain(Manifest(A, V1, <<>>, NoBrowser), main)),
     makeFile(Js(bodyA)),
     makeFile(Js(bodyB)),
     JsonFile(Manifest(Str("c"), V1, <<>>, NoBrowser)),
     makeDirectory(Entries({<<INDEX_JS, Obj(7)>>, <<NODE_MODULES, Obj(12)>>})),
     makeFile(Js(bodyLib)),
     makeDirectory(Entries({<<M, Obj(9)>>})),
     makeDirectory(Entries({<<PACKAGE_JSON, Obj(10)>>, <<INDEX_JS, Obj(11)>>})),
     JsonFile(Manifest(M, V1, <<>>, NoBrowser)),
     makeFile(Js(<<>>)),
     makeDirectory(Entries({<<M, Obj(13)>>})),
     makeDirectory(Entries({<<PACKAGE_JSON, Obj(14)>>, <<INDEX_JS, Obj(15)>>})),
     JsonFile(Manifest(M, V2, <<>>, NoBrowser)),
     makeFile(Js(<<>>)) >>

LoadTrees ==
  { LoadTree(main, bodyA, bodyB, bodyLib) :
      main \in { <<>>, A \o JS, Str("c") \o JSON },
      bodyA \in Bodies,
      bodyB \in ShortBodies,
      bodyLib \in { <<>>, <<DOTDOT \o <<SLASH>> \o A>>, <<M>> } }

\* The main option bootstrap is given: none, or a file
MainOptions == { <<>>, B \o JS, Str("lib") }

InitLoad ==
  /\ nodes \in LoadTrees
  /\ fsRoot = 1
  /\ trace = NoTrace
  /\ InstallIdle
  /\ LoadIdle

NextLoad ==
  \/ \E main \in MainOptions : Bootstrap(main)
  \/ Require
  \/ Return

SpecLoad == InitLoad /\ [][NextLoad]_vars

\* ENABLED <<NextLoad>>_vars, from the guards of Bootstrap, Require and Return: each of
\* them takes a step, and changes the state, wherever its guard holds
CanStep ==
  \/ booted.state = "idle"
  \/ booted.state = "running" /\ Top.pc > Len(Body(Top.module))
  \/ booted.state = "running" /\ Top.pc <= Len(Body(Top.module)) /\ Len(modules) < MaxModules

\* bootstrap is one synchronous call, which the engine runs to its end: WF_vars(NextLoad),
\* that is []<>(~ENABLED <<NextLoad>>_vars) \/ []<><<NextLoad>>_vars
SpecLoadFair == SpecLoad /\ ([]<>(~CanStep) \/ []<><<NextLoad>>_vars)

-----------------------------------------------------------------------------
(* Symlink traversal *)

Traversed == trace.op \in {"find", "lfind", "realnode"}

\* The symlinks li..ln of ChainTree(n) followed from li, when the traced call resolved li there
ChainLength ==
  IF /\ Len(nodes) = 2
     /\ \E n \in 0..(MaxChain + 1) : nodes = ChainTree(n)
     /\ trace.op \in {"find", "realnode"}
     /\ Len(trace.cwd) = 1
     /\ \E i \in 1..(MaxChain + 1) : trace.spec = LinkName(i) /\ trace.spec \in DOMAIN nodes[1].content
  THEN LET n == CHOOSE n \in 0..(MaxChain + 1) : nodes = ChainTree(n)
           i == CHOOSE i \in 1..(MaxChain + 1) : trace.spec = LinkName(i)
       IN n - i + 1
  ELSE 0

\* C8: every find, lfind and realnode ends with a Path, with not-found, or with an
\* ECYCLIC or ENOTDIR error, on every tree: the traversal never recurses without bound.
TraversalTerminates ==
  Traversed =>
    \/ trace.result.kind \in {"path", "null"}
    \/ trace.result.kind = "error" /\ trace.result.code \in {"ECYCLIC", "ENOTDIR"}

\* C9: resolving a symlink that heads a chain of exactly 20 symlinks ending at a file
\* returns that file, and one that heads a chain of 21 symlinks fails with ECYCLIC.
ChainOfTwentyResolves ==
  /\ ChainLength = 20 => IsOk(trace.result) /\ PNode(trace.result.path) = Obj(2)
  /\ ChainLength = 21 => trace.result = Err("ECYCLIC")

ChainOfTwentyResolved ==
  /\ ChainLength = 20
  /\ IsOk(trace.result)
  /\ isFilePath(nodes, trace.result.path)

-----------------------------------------------------------------------------
(* Installation *)

\* The heap objects held as entries of directory d
ChildrenOf(heap, d) ==
  IF isDir(heap[d])
  THEN { heap[d].content[n].id : n \in { m \in DOMAIN heap[d].content : heap[d].content[m].id # 0 } }
  ELSE {}

\* The package directories installed in d/node_modules
PackagesOf(heap, d) ==
  IF isDir(heap[d]) /\ NODE_MODULES \in DOMAIN heap[d].content
     /\ heap[d].content[NODE_MODULES].id # 0
  THEN { c \in ChildrenOf(heap, heap[d].content[NODE_MODULES].id) : isDir(heap[c]) }
  ELSE {}

\* The objects reached from `from` in at most n steps of Step
RECURSIVE Closure(_, _, _, _)
Closure(heap, Step(_, _), from, n) ==
  IF n = 0 THEN from
  ELSE Closure(heap, Step, from \cup UNION { Step(heap, d) : d \in from }, n - 1)

PackageDirs(heap, root) == Closure(heap, PackagesOf, {root}, Len(heap))
DescendantsOf(heap, d) == Closure(heap, ChildrenOf, ChildrenOf(heap, d), Len(heap))

\* The manifest a package directory holds
ManifestOf(heap, d) == NodeAt(heap, heap[d].content[PACKAGE_JSON]).content.value

\* Directory d has the dependency in its own node_modules: the qualified entry, a
\* directory, and the alias, a symlink
HasDependency(heap, d, dep) ==
  /\ NODE_MODULES \in DOMAIN heap[d].content
  /\ LET nm == NodeAt(heap, heap[d].content[NODE_MODULES])
     IN /\ isDir(nm)
        /\ QualifiedId(dep[1], dep[2]) \in DOMAIN nm.content
        /\ isDir(NodeAt(heap, nm.content[QualifiedId(dep[1], dep[2])]))
        /\ SafeName(dep[1]) \in DOMAIN nm.content
        /\ isLink(NodeAt(heap, nm.content[SafeName(dep[1])]))

DependenciesInstalled(heap, d) ==
  \A i \in 1..Len(ManifestOf(heap, d).dependencies) :
    LET dep == ManifestOf(heap, d).dependencies[i]
    IN NotDisabled(ManifestOf(heap, d).browser, dep[1]) => HasDependency(heap, d, dep)

\* C6: when every fetch succeeds and the dependency graph is acyclic, once install
\* resolves every package directory reachable from the root through node_modules has,
\* for each dependency its manifest declares and does not disable, the qualified
\* directory entry and the alias symlink in its own node_modules.
InstallComplete ==
  (status = "fulfilled" /\ ~fetchFailed /\ Acyclic(registry)) =>
    \A d \in PackageDirs(nodes, fsRoot) : DependenciesInstalled(nodes, d)

InstallCompleted ==
  /\ status = "fulfilled"
  /\ ~fetchFailed
  /\ registry[PkgA].dependencies = <<PkgB, PkgC>>
  /\ registry[PkgA].browser = NoBrowser
  /\ registry[PkgB].dependencies = <<PkgC>>
  /\ registry[PkgC].dependencies = <<>>
  /\ Cardinality(PackageDirs(nodes, fsRoot)) >= 3

\* The install calls of a run in which no chain of nested installs enters a package a
\* third time: the chains from `key` on, `once` and `twice` being the packages the
\* chain has entered once and twice
RECURSIVE RevisitingWalks(_, _, _, _, _)
RevisitingWalks(reg, key, once, twice, k) ==
  IF k > Len(reg[key].dependencies) THEN 1
  ELSE LET d == reg[key].dependencies[k]
       IN (IF ~NotDisabled(reg[key].browser, d[1]) \/ d \in twice THEN 0
           ELSE IF d \in once THEN RevisitingWalks(reg, d, once, twice \cup {d}, 1)
           ELSE RevisitingWalks(reg, d, once \cup {d}, twice, 1))
          + RevisitingWalks(reg, key, once, twice, k + 1)

\* a depends on b and b on a, and on nothing else
CycleAB ==
  /\ registry[PkgA].dependencies = <<PkgB>>
  /\ registry[PkgB].dependencies = <<PkgA>>

\* C7: when a depends on b and b on a, install makes finitely many recursive install
\* calls: it stops entering a package again once the cycle has brought it back there,
\* whether the installer returns fresh trees or its cached FileSystem.
InstallCallsFinite ==
  CycleAB => installs <= RevisitingWalks(registry, PkgA, {PkgA}, {}, 1)

\* The directories holding heap object i as an entry
HoldersOf(heap, i) == { d \in 1..Len(heap) : i \in ChildrenOf(heap, d) }

TreeShaped(heap) ==
  /\ \A i \in 1..Len(heap) : Cardinality(HoldersOf(heap, i)) <= 1
  /\ \A d \in 1..Len(heap) : d \notin DescendantsOf(heap, d)

\* C10 as stated: in every state of an install run, also with an installer that returns
\* its cached FileSystem again, no directory or file is an entry of two different
\* directories and no directory is its own descendant.
TreeShapedOwnership == TreeShaped(nodes)

\* C10, amended: the same, for runs whose installer returns a fresh FileSystem each time.
TreeShapedOwnershipFresh == installer = "fresh" => TreeShaped(nodes)

FreshDiamondInstalled ==
  /\ installer = "fresh"
  /\ status = "fulfilled"
  /\ registry[PkgA].dependencies = <<PkgB, PkgC>>
  /\ registry[PkgA].browser = NoBrowser
  /\ registry[PkgB].dependencies = <<PkgC>>
  /\ fetched = 3
  /\ Cardinality(PackageDirs(nodes, fsRoot)) = 4

-----------------------------------------------------------------------------
(* Loading *)

\* a.js requires ./b, b.js requires ./a, and a.js is the package's main file
CircularTree ==
  /\ nodes[2].content.value.main = A \o JS
  /\ nodes[3].content = Js(<< <<DOT, SLASH>> \o B >>)
  /\ nodes[4].content = Js(<< <<DOT, SLASH>> \o A >>)

\* bootstrap was given no main option: the entry file is a.js
EntryIsA == Len(modules) > 0 /\ modules[1].filename = <<SLASH>> \o A \o JS

OnStack(m) == \E i \in 1..Len(stack) : stack[i].module = m

\* C1: during one bootstrap run invoke is called at most once for every resolved file
\* path, the entry file's included.
EvaluatedOncePerPath ==
  \A i, j \in 1..Len(invoked) :
    modules[invoked[i]].filename = modules[invoked[j]].filename => i = j

\* How many times invoke was called for the file of module m
Invocations(m) ==
  Cardinality({ i \in 1..Len(invoked) : modules[invoked[i]].filename = modules[m].filename })

\* C2: when entry file a requires ./b and b requires ./a, bootstrap makes a bounded
\* number of evaluator invocations (no file is entered over and over) and ends by
\* returning the entry file's module, loaded.
CircularLoadTerminates ==
  /\ [](CircularTree => \A m \in 1..Len(modules) : Invocations(m) <= 2)
  /\ CircularTree ~> (booted.state = "returned" /\ stack = <<>> /\ modules[1].loaded)

CircularLoadReturned ==
  /\ CircularTree
  /\ EntryIsA
  /\ booted.state = "returned"
  /\ \E m \in 1..Len(modules) : modules[m].filename = <<SLASH>> \o B \o JS /\ modules[m].loaded

\* C3: in the cycle a -> b -> a with a the file being loaded, what b's require of a
\* returns is the exports of the evaluation of a still in progress, its module not yet
\* loaded, and not those of another, completed evaluation of a.
CycleSeesPlaceholder ==
  (CircularTree /\ EntryIsA) =>
    \A i \in 1..Len(returns) :
      returns[i].active # {} => returns[i].module \in returns[i].active /\ ~returns[i].loaded

\* C4: whenever a file is in evaluation, entered by require or by bootstrap, the require
\* cache holds under its resolved path the module being evaluated.
CacheHoldsEvaluating ==
  \A i \in 1..Len(stack) :
    /\ modules[stack[i].module].filename \in DOMAIN requireCache
    /\ requireCache[modules[stack[i].module].filename] = stack[i].module

\* A module is loaded once its evaluator has returned, and not before
LoadedAfterReturn ==
  \A m \in 1..Len(modules) :
    /\ OnStack(m) => ~modules[m].loaded
    /\ (booted.state \in {"running", "returned"} /\ ~OnStack(m)) => modules[m].loaded

\* The flag never goes back to false, and goes to true in the step its evaluator returns
LoadedStaysTrue ==
  \A m \in 1..Len(modules) :
    /\ modules[m].loaded => modules'[m].loaded
    /\ (~modules[m].loaded /\ modules'[m].loaded) => (Top.module = m /\ Top.pc > Len(Body(m)))

\* C5: a module's loaded flag is false from its creation until its evaluator returns,
\* becomes true exactly then and never goes back to false; no module is marked loaded
\* while its evaluation is on the stack.
LoadedFlagLifecycle == [](LoadedAfterReturn) /\ [][LoadedStaysTrue]_vars

NestedEvaluationLoaded ==
  /\ Len(stack) = 2
  /\ stack[2].pc = 2
  /\ \E m \in 1..Len(modules) : modules[m].loaded /\ modules[m].exports = "object"
  /\ \A i \in 1..2 : ~modules[stack[i].module].loaded

-----------------------------------------------------------------------------
(* Installation: errors, reuse, concurrency *)

NoManifest == PACKAGE_JSON \notin DOMAIN nodes[fsRoot].content

\* C11: install on a directory that has no package.json succeeds trivially: its promise
\* is fulfilled, without any fetch and without any error.
NoManifestSucceeds ==
  (NoManifest /\ status # "idle") => (status = "fulfilled" /\ fetched = 0)

\* The install calls a step starts and leaves awaiting their dependencies
NewCalls ==
  IF installs' > installs
  THEN SubSeq(calls', IF status = "idle" THEN 1 ELSE Len(calls), Len(calls'))
  ELSE <<>>

\* Directory nm held, before the step, a directory under the qualified identifier of slot
InstalledBefore(nm, slot) ==
  /\ nm <= Len(nodes)
  /\ isDir(nodes[nm])
  /\ QualifiedId(slot.name, slot.version) \in DOMAIN nodes[nm].content
  /\ isDir(NodeAt(nodes, nodes[nm].content[QualifiedId(slot.name, slot.version)]))

ReusesInstalled ==
  \A c \in 1..Len(NewCalls) : \A k \in 1..Len(NewCalls[c].slots) :
    LET slot == NewCalls[c].slots[k]
        nm == PNode(NewCalls[c].nm).id
    IN (slot.state # "skipped" /\ InstalledBefore(nm, slot)) =>
         /\ slot.state = "resolved"
         /\ nodes'[nm].content[QualifiedId(slot.name, slot.version)]
              = nodes[nm].content[QualifiedId(slot.name, slot.version)]

\* C12: when install comes to a dependency whose qualified identifier already resolves to
\* an entry of that directory's node_modules, it makes no fetch for it (its promise is
\* resolved without awaiting the installer) and the entry refers to the same node after.
DirectoryLocalDedup == [][ReusesInstalled]_vars

InstalledReused ==
  /\ nodes[fsRoot].content = Entries({<<PACKAGE_JSON, Obj(2)>>, <<NODE_MODULES, Obj(3)>>})
  /\ InstalledBefore(3, Slot(B, V1, "resolved", <<>>))
  /\ nodes[3].content[QualifiedId(B, V1)] = Obj(4)
  /\ status = "fulfilled"
  /\ fetched = 0
  /\ installs = 2

\* The keys the cache holds because a download fetched them (the FileSystem being
\* installed into may be in the cache before the run)
FetchedKeys == { key \in DOMAIN pkgCache : pkgCache[key].root # fsRoot }

OneFetchPerPackage ==
  installer = "cached" =>
    /\ fetched = Cardinality(FetchedKeys)
    /\ \A c \in 1..Len(calls) : \A k \in 1..Len(calls[c].slots) :
         LET slot == calls[c].slots[k]
             key == <<slot.name, slot.version>>
         IN /\ slot.state = "pending" => key \in DOMAIN pkgCache
            /\ (slot.state = "resolved" /\ Len(slot.path) = 1) =>
                 /\ key \in DOMAIN pkgCache
                 /\ pkgCache[key].state = "resolved"
                 /\ slot.path = makeRoot(pkgCache[key].root)

PromiseKept ==
  \A key \in DOMAIN pkgCache :
    /\ key \in DOMAIN pkgCache'
    /\ pkgCache[key].state # "pending" => pkgCache'[key] = pkgCache[key]

\* C13: with the cached download, under every interleaving of the concurrent install
\* branches, each name@version is fetched at most once (the promise is in the cache from
\* the first call on and is never replaced), and every branch that asked for it receives
\* the FileSystem of that one promise.
SharedDownload == []OneFetchPerPackage /\ [][PromiseKept]_vars

SharedDownloadGrafted ==
  /\ installer = "cached"
  /\ status = "fulfilled"
  /\ registry[PkgA].dependencies = <<PkgB, PkgC>>
  /\ registry[PkgA].browser = NoBrowser
  /\ registry[PkgB].dependencies = <<PkgC>>
  /\ PkgC \in FetchedKeys
  /\ pkgCache[PkgC].state = "resolved"
  /\ fetched = 2
  /\ Cardinality(HoldersOf(nodes, pkgCache[PkgC].root)) = 2

\* The slots of the calls a step starts that await the installer
RECURSIVE PendingIn(_, _)
PendingIn(started, c) ==
  IF c > Len(started) THEN 0
  ELSE Cardinality({ k \in 1..Len(started[c].slots) : started[c].slots[k].state = "pending" })
       + PendingIn(started, c + 1)

\* A step that starts install calls leaves every fetch of their dependencies issued, and
\* none of them awaited yet
AllIssuedAtStart ==
  /\ installer = "fresh" /\ installs' > installs =>
       fetched' - fetched = PendingIn(NewCalls, 1)
  /\ \A c \in 1..Len(NewCalls) : \A k \in 1..Len(NewCalls[c].slots) :
       LET slot == NewCalls[c].slots[k]
       IN /\ (installer = "cached" /\ slot.state = "pending") =>
               <<slot.name, slot.version>> \in DOMAIN pkgCache'
          /\ slot.state = "resolved" => Len(slot.path) > 1

\* The qualified identifiers the packages of the registry are grafted under
QualifiedIds == { QualifiedId(key[1], key[2]) : key \in DOMAIN registry }

\* An entry appears under a qualified identifier only in the step where the installer's
\* promise for that very slot, issued earlier, has resolved
GraftedAfterOwnFetch ==
  \A d \in 1..Len(nodes) :
    isDir(nodes[d]) =>
      \A id \in (DOMAIN nodes'[d].content \ DOMAIN nodes[d].content) \cap QualifiedIds :
        \E c \in 1..Len(calls) : \E k \in 1..Len(calls[c].slots) :
          LET slot == calls[c].slots[k]
              key == <<slot.name, slot.version>>
          IN /\ PNode(calls[c].nm).id = d
             /\ QualifiedId(slot.name, slot.version) = id
             /\ slot.state = "pending"
             /\ installs' = installs
             /\ Len(calls') = Len(calls)
             /\ calls'[c].slots[k].state = "resolved"
             /\ installer = "cached" =>
                  /\ key \in DOMAIN pkgCache
                  /\ pkgCache[key].state = "resolved"
                  /\ nodes'[d].content[id] = Obj(pkgCache[key].root)
             /\ installer = "fresh" => nodes'[d].content[id] = Obj(Len(nodes) + 1)

\* C14: within one install call the fetches of all the sibling dependencies are issued
\* before any of their results is awaited or grafted, and each dependency is grafted only
\* once its own fetch has resolved.
FanOut == [][AllIssuedAtStart /\ GraftedAfterOwnFetch]_vars

SiblingPendingAtGraft ==
  /\ status = "running"
  /\ installs = 1
  /\ fetched = 2
  /\ Len(calls) = 1
  /\ Len(calls[1].slots) = 2
  /\ calls[1].slots[1].state = "resolved"
  /\ Len(calls[1].slots[1].path) = 1
  /\ calls[1].slots[2].state = "pending"

\* Whether entry name of directory d is a symlink naming a directory entry of d
AliasOf(heap, d, name) ==
  LET link == NodeAt(heap, heap[d].content[name])
  IN isLink(link) =>
       /\ link.content \in DOMAIN heap[d].content
       /\ isDir(NodeAt(heap, heap[d].content[link.content]))

\* C15: in every state of an install run, also between the steps of concurrent branches,
\* every alias symlink of a node_modules names a qualified identifier that is an entry of
\* the same node_modules and is a directory.
GraftAtomic ==
  \A d \in 1..Len(nodes) :
    isDir(nodes[d]) => \A name \in DOMAIN nodes[d].content : AliasOf(nodes, d, name)

AliasGraftedMidRun ==
  /\ status = "running"
  /\ \E c \in 1..Len(calls) : \E k \in 1..Len(calls[c].slots) : \E j \in 1..Len(calls[c].slots) :
       /\ calls[c].slots[k].state = "resolved"
       /\ Len(calls[c].slots[k].path) = 1
       /\ calls[c].slots[j].state = "pending"
       /\ SafeName(calls[c].slots[k].name) \in DOMAIN nodes[PNode(calls[c].nm).id].content
       /\ isLink(NodeAt(nodes, nodes[PNode(calls[c].nm).id].content[SafeName(calls[c].slots[k].name)]))

\* No install call of the run can go on: each one left has a rejected dependency and none
\* that is still awaited
RunEnded ==
  \A c \in 1..Len(calls) : SlotRejected(calls[c]) /\ ~SlotPending(calls[c])

\* Slot y of call c is grafted into the call's node_modules
GraftedSlot(c, y) ==
  LET slot == calls[c].slots[y]
      nm == nodes[PNode(calls[c].nm).id]
  IN /\ QualifiedId(slot.name, slot.version) \in DOMAIN nm.content
     /\ nm.content[QualifiedId(slot.name, slot.version)] = PNode(slot.path)
     /\ SafeName(slot.name) \in DOMAIN nm.content
     /\ isLink(NodeAt(nodes, nm.content[SafeName(slot.name)]))

\* The slot was resolved by the installer, not by an entry found in node_modules
FetchSucceeded(slot) == slot.state = "resolved" /\ Len(slot.path) = 1

FailureReported(c, x, y) ==
  (calls[c].slots[x].state = "rejected" /\ FetchSucceeded(calls[c].slots[y])) =>
    status = "rejected" /\ GraftedSlot(c, y)

SiblingInstalled(c, x, y) ==
  (RunEnded /\ calls[c].slots[x].state = "rejected" /\ FetchSucceeded(calls[c].slots[y])) =>
    DependenciesInstalled(nodes, PNode(calls[c].slots[y].path).id)

\* C16: when the fetch of dependency X of a directory fails and that of its sibling Y
\* succeeds, install reports the failure, Y is grafted all the same, and by the end of the
\* run the nested install of Y has installed the dependencies of Y.
FailureIsolation ==
  \A c \in 1..Len(calls) : \A x \in 1..Len(calls[c].slots) : \A y \in 1..Len(calls[c].slots) :
    FailureReported(c, x, y) /\ SiblingInstalled(c, x, y)

\* Whether key is a qualified identifier of the bare name: '<name>@...'
QualifiedFor(name, key) ==
  /\ Len(key) > Len(SafeName(name))
  /\ SubSeq(key, 1, Len(SafeName(name)) + 1) = SafeName(name) \o <<AT>>

\* The qualified entries of name in directory d, and the symlinks of d naming one of them
QualifiedEntries(heap, d, name) ==
  { key \in DOMAIN heap[d].content : QualifiedFor(name, key) }
AliasesOf(heap, d, name) ==
  { key \in DOMAIN heap[d].content :
      /\ isLink(NodeAt(heap, heap[d].content[key]))
      /\ NodeAt(heap, heap[d].content[key]).content \in QualifiedEntries(heap, d, name) }

\* Directory d holds b under both version constraints
TwoVersions(heap, d) ==
  /\ isDir(heap[d])
  /\ QualifiedId(B, V1) \in DOMAIN heap[d].content
  /\ QualifiedId(B, V2) \in DOMAIN heap[d].content

TwoEntriesOneAlias ==
  \A d \in 1..Len(nodes) :
    TwoVersions(nodes, d) =>
      /\ QualifiedEntries(nodes, d, B) = { QualifiedId(B, V1), QualifiedId(B, V2) }
      /\ \A key \in QualifiedEntries(nodes, d, B) : isDir(NodeAt(nodes, nodes[d].content[key]))
      /\ AliasesOf(nodes, d, B) = { SafeName(B) }

\* The grafts a step makes: <<directory, name, version>> of every dependency whose arrow
\* function reaches lines 48-49 in the step
GraftsOfStep ==
  { <<PNode(calls[c].nm).id, calls[c].slots[k].name, calls[c].slots[k].version>> :
      <<c, k>> \in { ck \in (1..Len(calls)) \X (1..MaxFetches) :
                      /\ ck[2] <= Len(calls[ck[1]].slots)
                      /\ calls[ck[1]].slots[ck[2]].state = "pending"
                      /\ installs' = installs
                      /\ Len(calls') = Len(calls)
                      /\ calls'[ck[1]].slots[ck[2]].state = "resolved" } }
  \cup
  { <<PNode(NewCalls[c].nm).id, NewCalls[c].slots[k].name, NewCalls[c].slots[k].version>> :
      <<c, k>> \in { ck \in (1..Len(NewCalls)) \X (1..MaxFetches) :
                      /\ ck[2] <= Len(NewCalls[ck[1]].slots)
                      /\ NewCalls[ck[1]].slots[ck[2]].state = "resolved" } }

\* The alias of b names what the step grafted, and changes in no other step
LastGraftWins ==
  /\ \A g \in GraftsOfStep :
       /\ SafeName(g[2]) \in DOMAIN nodes'[g[1]].content
       /\ nodes'[g[1]].content[SafeName(g[2])] = Val(makeLink(QualifiedId(g[2], g[3])))
  /\ \A d \in 1..Len(nodes) :
       (/\ isDir(nodes[d])
        /\ SafeName(B) \in DOMAIN nodes'[d].content
        /\ \/ SafeName(B) \notin DOMAIN nodes[d].content
           \/ nodes'[d].content[SafeName(B)] # nodes[d].content[SafeName(B)])
       => \E g \in GraftsOfStep : g[1] = d /\ g[2] = B

\* C17: once b has been installed into one node_modules under two version constraints,
\* whichever came first, the directory holds exactly the two qualified entries b@1 and b@2
\* and exactly one alias symlink b, and the alias names the identifier grafted last.
LastInstalledWins == []TwoEntriesOneAlias /\ [][LastGraftWins]_vars

SecondVersionInstalled ==
  /\ status = "fulfilled"
  /\ registry[PkgA].dependencies = <<PkgB2>>
  /\ fetched = 1
  /\ TwoVersions(nodes, 3)
  /\ nodes[3].content[QualifiedId(B, V1)] = Obj(4)
  /\ nodes[3].content[SafeName(B)] = Val(makeLink(QualifiedId(B, V2)))


-----------------------------------------------------------------------------
(* resolve, applied to package trees *)

NATIVE == <<"native">> \o JS
SHIM == <<"shim">> \o JS
MAIN_JS == <<"main">> \o JS
LIB == Str("lib")
DEP == Str("dep")

\* './name', '/name', '../name'
Rel(name) == <<DOT, SLASH>> \o name
Abs(name) == <<SLASH>> \o name
Up(name) == DOTDOT \o <<SLASH>> \o name

\* The browser fields studied
Browsers ==
  { NoBrowser,
    BrowserMap(<< <<Rel(NATIVE), Disable>> >>),
    BrowserMap(<< <<Rel(NATIVE), Replace(Rel(SHIM))>> >>),
    BrowserMap(<< <<DEP, Replace(Rel(SHIM))>> >>) }

\* / = { package.json, native.js?, shim.js?, node_modules/? }
BrowserTree(browser, present) ==
  << makeDirectory(Entries(
       {<<PACKAGE_JSON, Obj(2)>>}
       \cup (IF NATIVE \in present THEN {<<NATIVE, Obj(3)>>} ELSE {})
       \cup (IF SHIM \in present THEN {<<SHIM, Obj(4)>>} ELSE {})
       \cup (IF NODE_MODULES \in present THEN {<<NODE_MODULES, Obj(5)>>} ELSE {}))),
     JsonFile(Manifest(A, V1, <<>>, browser)),
     makeFile(FILE_TEXT),
     makeFile(FILE_TEXT),
     makeDirectory(EmptyContent) >>

BrowserTrees ==
  { BrowserTree(browser, present) :
      browser \in Browsers, present \in SUBSET {NATIVE, SHIM, NODE_MODULES} }

\* What lib/ may hold: index.js as a file or as a directory, index.json, and a manifest
\* whose main is main.js
LibContents ==
  { Entries(ix \cup ij \cup pk) :
      ix \in { {}, {<<INDEX_JS, Obj(6)>>}, {<<INDEX_JS, Obj(7)>>} },
      ij \in { {}, {<<INDEX_JSON, Obj(8)>>} },
      pk \in { {}, {<<PACKAGE_JSON, Obj(9)>>, <<MAIN_JS, Obj(10)>>} } }

\* / = { package.json, lib/?, lib.js?, lib.json? }, lib/ = content
OrderTree(present, content) ==
  << makeDirectory(Entries(
       {<<PACKAGE_JSON, Obj(2)>>}
       \cup (IF LIB \in present THEN {<<LIB, Obj(3)>>} ELSE {})
       \cup (IF LIB \o JS \in present THEN {<<LIB \o JS, Obj(4)>>} ELSE {})
       \cup (IF LIB \o JSON \in present THEN {<<LIB \o JSON, Obj(5)>>} ELSE {}))),
     JsonFile(Manifest(A, V1, <<>>, NoBrowser)),
     makeDirectory(content),
     makeFile(FILE_TEXT),
     makeFile(FILE_TEXT),
     makeFile(FILE_TEXT),
     makeDirectory(EmptyContent),
     makeFile(FILE_TEXT),
     JsonFile(WithMain(Manifest(LIB, V1, <<>>, NoBrowser), MAIN_JS)),
     makeFile(FILE_TEXT) >>

OrderTrees ==
  { OrderTree(present, content) :
      present \in SUBSET {LIB, LIB \o JS, LIB \o JSON}, content \in LibContents }

PKG_A == Str("pkg-a")
APP == Str("app")

\* / = { package.json?, node_modules/? = { pkg-a/ = { package.json, index.js }, a -> pkg-a },
\*       app/ = { node_modules/? = { a/? = { package.json, index.js } } } }
\* manifest: whether / has a package.json; far: whether / has its node_modules;
\* near: whether app/ has none, an empty one, or one that holds a
ShadowTree(manifest, far, near) ==
  << makeDirectory(Entries(
       {<<APP, Obj(7)>>}
       \cup (IF manifest THEN {<<PACKAGE_JSON, Obj(2)>>} ELSE {})
       \cup (IF far THEN {<<NODE_MODULES, Obj(3)>>} ELSE {}))),
     JsonFile(Manifest(Str("root"), V1, <<>>, NoBrowser)),
     makeDirectory(Entries({<<PKG_A, Obj(4)>>, <<A, Val(makeLink(PKG_A))>>})),
     makeDirectory(Entries({<<PACKAGE_JSON, Obj(5)>>, <<INDEX_JS, Obj(6)>>})),
     JsonFile(WithMain(Manifest(A, V1, <<>>, NoBrowser), INDEX_JS)),
     makeFile(FILE_TEXT),
     makeDirectory(IF near = "none" THEN EmptyContent ELSE Entries({<<NODE_MODULES, Obj(8)>>})),
     makeDirectory(IF near = "holds" THEN Entries({<<A, Obj(9)>>}) ELSE EmptyContent),
     makeDirectory(Entries({<<PACKAGE_JSON, Obj(10)>>, <<INDEX_JS, Obj(11)>>})),
     JsonFile(WithMain(Manifest(A, V2, <<>>, NoBrowser), INDEX_JS)),
     makeFile(FILE_TEXT) >>

ShadowTrees ==
  { ShadowTree(manifest, far, near) :
      manifest \in BOOLEAN, far \in BOOLEAN, near \in {"none", "empty", "holds"} }

\* The specifiers handed to resolve
ResolveIds == { Rel(NATIVE), Rel(SHIM), DEP, Rel(LIB), Abs(LIB), Up(LIB), A }

InitResolve ==
  /\ nodes \in BrowserTrees \cup OrderTrees \cup ShadowTrees
  /\ fsRoot = 1
  /\ trace = NoTrace
  /\ InstallIdle
  /\ LoadIdle

\* A resolve that would put the Path it returns into the tree
ResolveInserting(cwd, id) ==
  /\ trace' = [op |-> "resolve", cwd |-> cwd, spec |-> id,
               result |-> resolve(nodes, fsRoot, cwd, id)]
  /\ nodes' = IF IsOk(trace'.result) /\ HasParent(trace'.result.path)
                  /\ PNode(PParent(trace'.result.path)).id # 0
               THEN SetEntry(nodes, PNode(PParent(trace'.result.path)).id,
                             PName(trace'.result.path), PNode(trace'.result.path))
               ELSE nodes
  /\ UNCHANGED fsRoot
  /\ UNCHANGED installVars
  /\ UNCHANGED loadVars
Resolve(cwd, id) ==
  /\ trace' = [op |-> "resolve", cwd |-> cwd, spec |-> id,
               result |-> resolve(nodes, fsRoot, cwd, id)]
  /\ UNCHANGED <<nodes, fsRoot>>
  /\ UNCHANGED installVars
  /\ UNCHANGED loadVars

NextResolve == \E cwd \in Cwds(nodes, fsRoot), id \in ResolveIds : Resolve(cwd, id)

SpecResolve == InitResolve /\ [][NextResolve]_vars


-----------------------------------------------------------------------------
(* resolve: the browser field and the order of the candidates *)

\* resolve(root, makeRoot(root), id) has been applied in a package whose manifest has this
\* browser field
ResolvedAtRoot(id, browser) ==
  /\ trace.op = "resolve"
  /\ trace.cwd = makeRoot(fsRoot)
  /\ trace.spec = id
  /\ PACKAGE_JSON \in DOMAIN nodes[fsRoot].content
  /\ ManifestOf(nodes, fsRoot).browser = browser

\* The outcome is the Path of this node
Gives(result, ref) == IsOk(result) /\ PNode(result.path) = ref

\* C18: when the manifest has browser {'./native.js': false}, resolve of './native.js'
\* from the package's directory returns the stub, an empty file, whether native.js exists
\* in the directory or not: never the real file, never a not-found error.
DisabledGivesStub ==
  ResolvedAtRoot(Rel(NATIVE), BrowserMap(<< <<Rel(NATIVE), Disable>> >>)) =>
    Gives(trace.result, Val(makeFile(EMPTY)))

\* C19: when the browser map sends a specifier, relative or bare, to a replacement that
\* names an existing file, resolve of that specifier from the package's directory returns
\* the Path of the replacement's file.
ReplacementGivesTarget ==
  \A s \in {Rel(NATIVE), DEP} :
    (/\ ResolvedAtRoot(s, BrowserMap(<< <<s, Replace(Rel(SHIM))>> >>))
     /\ SHIM \in DOMAIN nodes[fsRoot].content)
    => Gives(trace.result, nodes[fsRoot].content[SHIM])


\* Whether specifier c names an existing file from cwd
FileAt(cwd, c) ==
  IsOk(find(nodes, fsRoot, cwd, c)) /\ isFilePath(nodes, find(nodes, fsRoot, cwd, c).path)

\* Whether specifier c names an existing directory from cwd
DirAt(cwd, c) ==
  IsOk(find(nodes, fsRoot, cwd, c)) /\ isDirPath(nodes, find(nodes, fsRoot, cwd, c).path)

\* The entry named by the manifest of directory s, if s is a directory holding one
ManifestEntry(cwd, s) ==
  IF DirAt(cwd, s) /\ FileAt(cwd, s \o <<SLASH>> \o PACKAGE_JSON)
  THEN << s \o <<SLASH>>
            \o MainOf(PContent(nodes, find(nodes, fsRoot, cwd, s \o <<SLASH>> \o PACKAGE_JSON).path).value,
                      <<>>) >>
  ELSE <<>>

\* The candidates of specifier s, in the order stated
Candidates(cwd, s) ==
  << s, s \o JS, s \o JSON, s \o <<SLASH>> \o INDEX_JS, s \o <<SLASH>> \o INDEX_JSON >>
  \o ManifestEntry(cwd, s)

\* The first candidate from number k on that is an existing file, <<>> if there is none
RECURSIVE FirstFile(_, _, _)
FirstFile(cwd, cands, k) ==
  IF k > Len(cands) THEN <<>>
  ELSE IF FileAt(cwd, cands[k]) THEN cands[k]
  ELSE FirstFile(cwd, cands, k + 1)

ResolvedRelative(s) == trace.op = "resolve" /\ trace.spec = s

\* C20: for a specifier s that starts with './', '../' or '/', resolve returns the first
\* of s, s.js, s.json, s/index.js, s/index.json and the entry named by the manifest of
\* directory s that is an existing file; so s.js when s is a directory and s.js a file,
\* and s/index.json when s/index.js is a directory and s/index.json a file.
CandidateOrder ==
  \A s \in {Rel(LIB), Abs(LIB), Up(LIB)} :
    (ResolvedRelative(s) /\ FirstFile(trace.cwd, Candidates(trace.cwd, s), 1) # <<>>)
    => trace.result = find(nodes, fsRoot, trace.cwd,
                           FirstFile(trace.cwd, Candidates(trace.cwd, s), 1))


\* The codes of the failures that report a node of the wrong type
TypeMismatch == {"EISDIR", "ENOTDIR"}

\* Resolution of s has come to s/index.js, no earlier candidate being a file, and
\* s/index.js is a directory
IndexIsDirectory(cwd, s) ==
  /\ ~FileAt(cwd, s)
  /\ ~FileAt(cwd, s \o JS)
  /\ ~FileAt(cwd, s \o JSON)
  /\ DirAt(cwd, s \o <<SLASH>> \o INDEX_JS)

\* C21: a candidate of resolve that exists but is a directory where a file is required,
\* such as s/index.js, makes resolve fail with a type-mismatch error; resolve does not
\* treat it as absent and go on to a later candidate or to not-found.
DirectoryCandidateFails ==
  \A s \in {Rel(LIB), Abs(LIB), Up(LIB)} :
    (ResolvedRelative(s) /\ IndexIsDirectory(trace.cwd, s)) =>
      (IsErr(trace.result) /\ trace.result.code \in TypeMismatch)


\* C22: whenever resolve finds no file, it fails with the ENOENT error whose message names
\* the specifier it was given: it does not return null and does not name another path.
NotFoundNamesSpecifier ==
  (trace.op = "resolve" /\ ~IsOk(trace.result)) =>
    /\ IsErr(trace.result)
    /\ trace.result.code = "ENOENT"
    /\ trace.result.named = trace.spec


\* Whether the directory of Path dir has a node_modules directory with an entry p
HoldsPackage(dir, p) ==
  /\ NODE_MODULES \in DOMAIN PContent(nodes, dir)
  /\ isDir(NodeAt(nodes, PContent(nodes, dir)[NODE_MODULES]))
  /\ p \in DOMAIN NodeAt(nodes, PContent(nodes, dir)[NODE_MODULES]).content

\* The ancestors of cwd, cwd included, by their depth, that hold package p
HoldersOnTheWay(cwd, p) ==
  { i \in 1..Len(cwd) : HoldsPackage(SubSeq(cwd, 1, i), p) }

Nearest(holders) == CHOOSE i \in holders : \A j \in holders : j <= i

\* The directory of package p in the node_modules of Path dir
PackageDirIn(dir, p) ==
  get(nodes, fsRoot, makePath(PContent(nodes, dir)[NODE_MODULES], NODE_MODULES, dir), p)

\* resolve gave a file of the package directory found under the nearest holder
FromNearest(cwd, p, result) ==
  /\ IsOk(result)
  /\ IsOk(PackageDirIn(SubSeq(cwd, 1, Nearest(HoldersOnTheWay(cwd, p))), p))
  /\ PNode(PParent(result.path))
       = PNode(PackageDirIn(SubSeq(cwd, 1, Nearest(HoldersOnTheWay(cwd, p))), p).path)

\* C23: for a bare specifier naming package p, resolve uses the node_modules nearest to cwd,
\* among cwd and its ancestors, that contains p: never a farther one that contains p too,
\* and a farther one when no nearer node_modules contains p.
NearestWins ==
  (trace.op = "resolve" /\ trace.spec = A /\ HoldersOnTheWay(trace.cwd, A) # {}) =>
    FromNearest(trace.cwd, A, trace.result)


\* Directory / has the node_modules of the alias scenario: the package directory pkg-a and
\* the alias symlink a -> pkg-a
AliasScenario ==
  /\ HoldsPackage(makeRoot(fsRoot), A)
  /\ HoldsPackage(makeRoot(fsRoot), PKG_A)
  /\ NodeAt(nodes, NodeAt(nodes, nodes[fsRoot].content[NODE_MODULES]).content[A]) = makeLink(PKG_A)

\* C24: from a directory whose node_modules holds the package directory pkg-a (manifest
\* name a, main index.js, file index.js) and the alias symlink a -> pkg-a, resolve of 'a'
\* returns the Path of pkg-a/index.js, whatever else the requesting directory holds or
\* lacks.
AliasResolves ==
  (trace.op = "resolve" /\ trace.spec = A /\ trace.cwd = makeRoot(fsRoot) /\ AliasScenario) =>
    /\ IsOk(trace.result)
    /\ PathStr(nodes, trace.result.path)
         = <<SLASH>> \o NODE_MODULES \o <<SLASH>> \o PKG_A \o <<SLASH>> \o INDEX_JS
    /\ PNode(trace.result.path)
         = PContent(nodes, PackageDirIn(makeRoot(fsRoot), A).path)[INDEX_JS]


-----------------------------------------------------------------------------
(* Loading: the literal alias of the require cache *)

\* The keys of the require cache that are specifiers without '/'
LiteralKeys == { id \in DOMAIN requireCache : ~Includes(id, SLASH) }

\* Every literal key holds the module that the cache holds under that module's filename
TwoKeysOneModule ==
  \A id \in LiteralKeys :
    /\ modules[requireCache[id]].filename \in DOMAIN requireCache
    /\ requireCache[modules[requireCache[id]].filename] = requireCache[id]

\* The file in evaluation is about to call require(id)
Requiring(id) ==
  /\ booted.state = "running"
  /\ stack # <<>>
  /\ Top.pc <= Len(Body(Top.module))
  /\ Body(Top.module)[Top.pc] = id

\* A require of a literal key is answered with the module under that key: no module is
\* made, the cache is left alone, whatever resolve would give from the requiring file
ServedByLiteralKey ==
  \A id \in LiteralKeys :
    (Requiring(id) /\ stack' # stack) =>
      /\ modules' = modules
      /\ requireCache' = requireCache
      /\ returns' = Append(returns, Returned(stack, modules, requireCache[id]))

\* A require of a specifier without '/' that makes a module leaves it in the cache under
\* the specifier and under its filename
RegisteredOnMiss ==
  \A id \in RequireIds :
    (Requiring(id) /\ ~Includes(id, SLASH) /\ Len(modules') > Len(modules)) =>
      /\ id \in DOMAIN requireCache'
      /\ requireCache'[id] = Len(modules')
      /\ modules'[Len(modules')].filename \in DOMAIN requireCache'
      /\ requireCache'[modules'[Len(modules')].filename] = Len(modules')

\* C25: once require(id) of a specifier without '/' has been served by a cache miss, the
\* require cache holds one module under the literal id and under the resolved path, and
\* every later require(id), from any module, returns that module's exports without
\* resolving id again.
LiteralAlias == []TwoKeysOneModule /\ [][RegisteredOnMiss /\ ServedByLiteralKey]_vars

M_INDEX == <<SLASH>> \o NODE_MODULES \o <<SLASH>> \o M \o <<SLASH>> \o INDEX_JS

\* lib/index.js, which has an m of its own in lib/node_modules, has required 'm' and was
\* given the module of /node_modules/m/index.js
AliasServedNestedRequire ==
  /\ booted.state = "running"
  /\ stack # <<>>
  /\ modules[Top.module].filename = <<SLASH>> \o LIB \o <<SLASH>> \o INDEX_JS
  /\ Body(Top.module) = <<M>>
  /\ Top.pc = 2
  /\ M \in DOMAIN requireCache
  /\ modules[requireCache[M]].filename = M_INDEX
  /\ returns # <<>>
  /\ returns[Len(returns)].module = requireCache[M]

-----------------------------------------------------------------------------
(* Paths: the round trip through the path string *)

\* The last find was handed the path string of p
FoundByPathString(p) == trace.op = "find" /\ trace.spec = PathStr(nodes, p)

SamePath(p, r) ==
  /\ IsOk(r)
  /\ PNode(r.path) = PNode(p)
  /\ PathStr(nodes, r.path) = PathStr(nodes, p)

\* C26: for every Path P of a file or directory reached from the root by names alone,
\* find of P's path string from any directory returns a Path with P's node and P's path
\* string.
PathRoundTrip ==
  \A p \in PlainPaths(nodes, fsRoot) : FoundByPathString(p) => SamePath(p, trace.result)

\* The same, for the trees whose names do not end with the escape character
PathRoundTripPlainNames ==
  (TRAILING_ESCAPE \notin DOMAIN nodes[fsRoot].content) => PathRoundTrip

\* The file of a directory whose name holds an escaped separator was found by its path
\* string, from inside that directory
EscapedNameRoundTrip ==
  /\ ESCAPED_NAME \in DOMAIN nodes[fsRoot].content
  /\ trace.op = "find"
  /\ Len(trace.cwd) = 2
  /\ trace.spec = <<SLASH>> \o ESCAPED_NAME \o <<SLASH>> \o F
  /\ IsOk(trace.result)
  /\ PNode(trace.result.path) = Obj(4)


-----------------------------------------------------------------------------
(* lfind: '..' at the root *)

\* The parts without their leading '..' parts
RECURSIVE WithoutLeadingUp(_)
WithoutLeadingUp(parts) ==
  IF parts # <<>> /\ Head(parts) = DOTDOT THEN WithoutLeadingUp(Tail(parts)) ELSE parts

\* The last call was lfind starting at the root: from the root directory, or of an
\* absolute specifier
LfindFromRoot ==
  /\ trace.op = "lfind"
  /\ Len(trace.cwd) = 1 \/ (trace.spec # <<>> /\ Head(trace.spec) = SLASH)

\* C27: a '..' part consumed at the root leaves lfind at the root without an error:
\* lfind from the root gives what it gives for the specifier without its leading '..'
\* parts, the root itself when nothing else is left.
UpAtRootStays ==
  LfindFromRoot =>
    trace.result = LfindLoop(nodes, fsRoot, makeRoot(fsRoot),
                             WithoutLeadingUp(decode(trace.spec)), 1,
                             MAX_SYMLINK_DEPTH, MaxCallDepth - 1)

\* lfind of '../../d' from the root gave the directory d, and of '../..' the root
UpAtRootResolved ==
  /\ LfindFromRoot
  /\ \/ /\ trace.spec = DOTDOT \o <<SLASH>> \o DOTDOT \o <<SLASH>> \o D
        /\ trace.result = Ok(makePath(Obj(2), D, makeRoot(fsRoot)))
     \/ /\ trace.spec = <<SLASH>> \o DOTDOT \o <<SLASH>> \o D \o <<SLASH>> \o F
        /\ Len(trace.cwd) = 2
        /\ IsOk(trace.result)
        /\ PathStr(nodes, trace.result.path) = <<SLASH>> \o D \o <<SLASH>> \o F


-----------------------------------------------------------------------------
(* Symlinks while the tree changes: find through the installer's alias *)

RemoveEntry(heap, dir, name) ==
  [heap EXCEPT ![dir].content = [n \in (DOMAIN @) \ {name} |-> @[n]]]

\* node_modules/b, node_modules/b@1, node_modules/b@2
InNodeModules(name) == NODE_MODULES \o <<SLASH>> \o name
Unlinked == { InNodeModules(SafeName(B)), InNodeModules(QualifiedId(B, V1)),
              InNodeModules(QualifiedId(B, V2)) }

\* The specifiers that cross the alias: as the last component, and on the way
THROUGH_ALIAS == InNodeModules(SafeName(B))
BEYOND_ALIAS == InNodeModules(SafeName(B)) \o <<SLASH>> \o PACKAGE_JSON

\* The installs studied: a depends on one version of b or on nothing, b and c on nothing
InitLink ==
  /\ InitInstall
  /\ registry[PkgB].dependencies = <<>>
  /\ registry[PkgC].dependencies = <<>>
  /\ registry[PkgA].browser = NoBrowser
  /\ registry[PkgA].dependencies \in { <<>>, <<PkgB>>, <<PkgB2>> }

\* find(root, makeRoot(root), spec), recorded with the tree it was called on
FindThroughAlias(spec) ==
  /\ trace' = [op |-> "find", cwd |-> makeRoot(fsRoot), spec |-> spec,
               result |-> find(nodes, fsRoot, makeRoot(fsRoot), spec), tree |-> nodes]
  /\ UNCHANGED <<nodes, fsRoot>>
  /\ UNCHANGED installVars
  /\ UNCHANGED loadVars

UnlinkFound(nodePath) ==
  /\ IsOk(nodePath)
  /\ HasParent(nodePath.path)
  /\ nodes' = RemoveEntry(nodes, PNode(PParent(nodePath.path)).id, PName(nodePath.path))

\* unlinkSync(path) from the root directory; when it throws, nothing changes
UnlinkSync(path) ==
  /\ UnlinkFound(lfind(nodes, fsRoot, makeRoot(fsRoot), path))
  /\ UNCHANGED <<fsRoot, trace>>
  /\ UNCHANGED installVars
  /\ UNCHANGED loadVars

NextLink ==
  \/ NextInstall
  \/ \E spec \in {THROUGH_ALIAS, BEYOND_ALIAS} : FindThroughAlias(spec)
  \/ \E path \in Unlinked : UnlinkSync(path)

SpecLink == InitLink /\ [][NextLink]_vars

\* What the alias b of the root's node_modules designates in a tree, read off the
\* directory's entries: the entry named by the symlink's content
HasAlias(heap) ==
  /\ NODE_MODULES \in DOMAIN heap[fsRoot].content
  /\ SafeName(B) \in DOMAIN NodeAt(heap, heap[fsRoot].content[NODE_MODULES]).content
NodeModulesPath(heap) ==
  makePath(heap[fsRoot].content[NODE_MODULES], NODE_MODULES, makeRoot(fsRoot))
AliasContent(heap) ==
  NodeAt(heap, PContent(heap, NodeModulesPath(heap))[SafeName(B)]).content
AliasTarget(heap) ==
  makePath(PContent(heap, NodeModulesPath(heap))[AliasContent(heap)], AliasContent(heap),
           NodeModulesPath(heap))
Designated(heap, spec) ==
  IF ~HasAlias(heap) THEN Null
  ELSE IF AliasContent(heap) \notin DOMAIN PContent(heap, NodeModulesPath(heap)) THEN Null
  ELSE IF spec = THROUGH_ALIAS THEN Ok(AliasTarget(heap))
  ELSE IF PACKAGE_JSON \notin DOMAIN PContent(heap, AliasTarget(heap)) THEN Null
  ELSE Ok(makePath(PContent(heap, AliasTarget(heap))[PACKAGE_JSON], PACKAGE_JSON,
                   AliasTarget(heap)))

\* C28: symlinks are resolved anew on every traversal: whatever the installer and
\* unlinkSync did to the alias b and to the entries it may name, a find through the alias
\* returns what the symlink's content designates in the tree the find is called on.
LazyLinks ==
  (trace.op = "find" /\ "tree" \in DOMAIN trace) =>
    trace.result = Designated(trace.tree, trace.spec)

\* The installer overwrote the alias b -> b@1 with b -> b@2 and the find that followed
\* gave the new directory, b@1 still being there
OverwrittenAliasFollowed ==
  /\ trace.op = "find"
  /\ "tree" \in DOMAIN trace
  /\ trace.spec = THROUGH_ALIAS
  /\ trace.tree = nodes
  /\ Len(nodes) > 5
  /\ TwoVersions(nodes, 3)
  /\ nodes[3].content[QualifiedId(B, V1)] = Obj(4)
  /\ IsOk(trace.result)
  /\ PNode(trace.result.path) = nodes[3].content[QualifiedId(B, V2)]
  /\ PNode(trace.result.path) # Obj(4)

\* The entry b@1 the alias names was unlinked, the installer grafted b@1 anew, and the
\* find that followed gave the directory grafted
DanglingAliasRegrafted ==
  /\ trace.op = "find"
  /\ "tree" \in DOMAIN trace
  /\ trace.spec = BEYOND_ALIAS
  /\ trace.tree = nodes
  /\ HasAlias(nodes)
  /\ AliasContent(nodes) = QualifiedId(B, V1)
  /\ Len(nodes) > 5
  /\ IsOk(trace.result)
  /\ PNode(PParent(trace.result.path)) = Obj(6)


-----------------------------------------------------------------------------
(* find and lfind: what is not there, and what is not a directory *)

\* Where a call starts: the root for an absolute specifier, else its cwd
StartOf(cwd, spec) == IF spec # <<>> /\ Head(spec) = SLASH THEN makeRoot(fsRoot) ELSE cwd

FirstPart(spec) == decode(spec)[1]

\* The first component of the specifier is a name the starting directory does not hold
FirstAbsent(cwd, spec) ==
  /\ decode(spec) # <<>>
  /\ FirstPart(spec) # DOTDOT
  /\ FirstPart(spec) \notin DOMAIN PContent(nodes, StartOf(cwd, spec))

\* Entry `name` of directory p is a symlink whose content is a plain name
LinkToName(p, name) ==
  /\ name \in DOMAIN PContent(nodes, p)
  /\ isLink(NodeAt(nodes, PContent(nodes, p)[name]))
  /\ decode(NodeAt(nodes, PContent(nodes, p)[name]).content)
       = << NodeAt(nodes, PContent(nodes, p)[name]).content >>
  /\ NodeAt(nodes, PContent(nodes, p)[name]).content # DOTDOT

LinkedName(p, name) == NodeAt(nodes, PContent(nodes, p)[name]).content

\* The first component is a symlink to a name its directory does not hold, or a symlink
\* to such a symlink
FirstDangling(cwd, spec) ==
  /\ decode(spec) # <<>>
  /\ LinkToName(StartOf(cwd, spec), FirstPart(spec))
  /\ \/ LinkedName(StartOf(cwd, spec), FirstPart(spec))
          \notin DOMAIN PContent(nodes, StartOf(cwd, spec))
     \/ /\ LinkToName(StartOf(cwd, spec), LinkedName(StartOf(cwd, spec), FirstPart(spec)))
        /\ LinkedName(StartOf(cwd, spec), LinkedName(StartOf(cwd, spec), FirstPart(spec)))
             \notin DOMAIN PContent(nodes, StartOf(cwd, spec))

\* C29: find gives null, neither a Path nor an Error, when a component of the specifier
\* is absent from its directory, and when a symlink met on the way, as the last
\* component or before others, names an entry that is not there.
MissingIsNull ==
  (trace.op = "find" /\ (FirstAbsent(trace.cwd, trace.spec) \/ FirstDangling(trace.cwd, trace.spec)))
    => trace.result = Null

\* The same, for the names an object does not inherit
MissingOwnIsNull ==
  (decode(trace.spec) # <<>> /\ FirstPart(trace.spec) \notin ObjectPrototypeKeys)
    => MissingIsNull

\* find of 'a/x' from the root, a being a symlink to the absent m, gave null
DanglingOnTheWayIsNull ==
  /\ trace.op = "find"
  /\ Len(trace.cwd) = 1
  /\ trace.spec = A \o <<SLASH>> \o X
  /\ FirstDangling(trace.cwd, trace.spec)
  /\ LinkedName(trace.cwd, A) = M
  /\ trace.result = Null

\* The first component is a file of the starting directory, or a symlink to one, and
\* more components follow
FirstIsFile(cwd, spec) ==
  /\ Len(decode(spec)) > 1
  /\ FirstPart(spec) \in DOMAIN PContent(nodes, StartOf(cwd, spec))
  /\ \/ isFile(NodeAt(nodes, PContent(nodes, StartOf(cwd, spec))[FirstPart(spec)]))
     \/ /\ LinkToName(StartOf(cwd, spec), FirstPart(spec))
        /\ LinkedName(StartOf(cwd, spec), FirstPart(spec))
             \in DOMAIN PContent(nodes, StartOf(cwd, spec))
        /\ isFile(NodeAt(nodes, PContent(nodes, StartOf(cwd, spec))
                                  [LinkedName(StartOf(cwd, spec), FirstPart(spec))]))

\* C30: lfind throws ENOTDIR whenever a component, a name or '..', is still to be
\* consumed and the current node, symlinks followed, is a file: it returns neither a Path
\* nor null.
ThroughFileIsNotDir ==
  (trace.op = "lfind" /\ FirstIsFile(trace.cwd, trace.spec))
    => trace.result = Err("ENOTDIR")

\* lfind of 'a/..' from the root, a being a symlink to the file f, threw ENOTDIR
UpThroughLinkedFile ==
  /\ trace.op = "lfind"
  /\ Len(trace.cwd) = 1
  /\ trace.spec = A \o <<SLASH>> \o DOTDOT
  /\ LinkToName(trace.cwd, A)
  /\ LinkedName(trace.cwd, A) = F
  /\ trace.result = Err("ENOTDIR")


-----------------------------------------------------------------------------
(* The fs stand-in: readFileSync, writeFileSync, appendFileSync, truncateSync, statSync *)

\* makeFile(content) of a string, with the size it records; an UnpkgFile has a getter
\* for its content and no setter
StringFile(content) == [type |-> "file", size |-> Len(content), content |-> content]
UnpkgFile(content) ==
  [type |-> "file", size |-> Len(content), content |-> content, setter |-> FALSE]
isWritableFile(node) == "setter" \notin DOMAIN node

\* What a call of the stand-in returns
Gave(v) == [kind |-> "value", path |-> <<>>, code |-> "", named |-> <<>>, value |-> v]
Done == [kind |-> "done", path |-> <<>>, code |-> "", named |-> <<>>]

\* The heap a call leaves, and what it returned or threw
After(heap, outcome) == [heap |-> heap, outcome |-> outcome]

\* PATH_REGEXP = /^(.*)\/([^\/]+)$/ applied to `full`: null when nothing follows the last '/'
Matches(full) ==
  /\ LastIndexOf(full, SLASH, Len(full)) > 0
  /\ LastIndexOf(full, SLASH, Len(full)) < Len(full)
DirName(full) == SubSeq(full, 1, LastIndexOf(full, SLASH, Len(full)) - 1)
EntryName(full) == SubSeq(full, LastIndexOf(full, SLASH, Len(full)) + 1, Len(full))

\* filename.startsWith('/') ? filename : wd.path + filename
FullName(heap, wd, filename) ==
  IF StartsWith(filename, <<SLASH>>) THEN filename ELSE PathStr(heap, wd) \o filename

\* parent.node.content[name] = makeFile('')
Created(heap, parent, name) ==
  SetEntry(Append(heap, StringFile(<<>>)), PNode(parent).id, name, Obj(Len(heap) + 1))

readFileFound(heap, path) ==
  IF IsErr(path) THEN path
  ELSE IF IsNull(path) THEN Err("ENOENT")
  ELSE IF isFilePath(heap, path.path) THEN Gave(PContent(heap, path.path))
  ELSE Err("EISDIR")

readFileSync(heap, root, wd, filename) == readFileFound(heap, find(heap, root, wd, filename))

\* writeFileSync from `if (isFilePath(path))` on; file is the heap object of the node
WriteContent(heap, file, data) == After([heap EXCEPT ![file].content = data], Done)
writeFileTo(heap, path, data) ==
  IF ~isFilePath(heap, path) THEN After(heap, Err("EISDIR"))
  ELSE IF ~isWritableFile(NodeAt(heap, PNode(path))) THEN After(heap, Err("EACCES"))
  ELSE WriteContent(heap, PNode(path).id, data)

\* The branch `if (!path)` of writeFileSync and appendFileSync: the file is made in the
\* directory that find gives for the dirname
CreatedIn(heap, parent, name) ==
  IF IsErr(parent) THEN After(heap, parent)
  ELSE IF IsOk(parent) /\ isDirPath(heap, parent.path)
  THEN After(Created(heap, parent.path, name),
             Ok(makePath(Obj(Len(heap) + 1), name, parent.path)))
  ELSE After(heap, Err("ENOENT"))

CreateFile(heap, root, wd, full) ==
  IF ~Matches(full) THEN After(heap, Err("TypeError"))
  ELSE CreatedIn(heap, find(heap, root, wd, DirName(full)), EntryName(full))

writeFileCreated(created, data) ==
  IF IsErr(created.outcome) THEN created
  ELSE writeFileTo(created.heap, created.outcome.path, data)

writeFileFound(heap, root, wd, filename, data, path) ==
  IF IsErr(path) THEN After(heap, path)
  ELSE IF IsNull(path)
  THEN writeFileCreated(CreateFile(heap, root, wd, FullName(heap, wd, filename)), data)
  ELSE writeFileTo(heap, path.path, data)

writeFileSync(heap, root, wd, filename, data) ==
  writeFileFound(heap, root, wd, filename, data, find(heap, root, wd, filename))

\* appendFileSync: the branch that appends is the `else` of the branch that creates
AppendContent(heap, file, data) ==
  After([heap EXCEPT ![file].content = @ \o data], Done)
appendFileTo(heap, path, data) ==
  IF ~isFilePath(heap, path) THEN After(heap, Err("EISDIR"))
  ELSE IF ~isWritableFile(NodeAt(heap, PNode(path))) THEN After(heap, Err("EACCES"))
  ELSE AppendContent(heap, PNode(path).id, data)

appendFileCreated(created) ==
  IF IsErr(created.outcome) THEN created ELSE After(created.heap, Done)

appendFileFound(heap, root, wd, filename, data, path) ==
  IF IsErr(path) THEN After(heap, path)
  ELSE IF IsNull(path)
  THEN appendFileCreated(CreateFile(heap, root, wd, FullName(heap, wd, filename)))
  ELSE appendFileTo(heap, path.path, data)

appendFileSync(heap, root, wd, filename, data) ==
  appendFileFound(heap, root, wd, filename, data, find(heap, root, wd, filename))

\* truncateSync: lfind, then node.size = len
SetSize(heap, file, len) == After([heap EXCEPT ![file].size = len], Done)
truncateFound(heap, file, len) ==
  IF IsErr(file) THEN After(heap, file)
  ELSE IF IsNull(file) THEN After(heap, Err("ENOENT"))
  ELSE IF ~isFilePath(heap, file.path) THEN After(heap, Err("EISDIR"))
  ELSE IF ~isWritableFile(NodeAt(heap, PNode(file.path))) THEN After(heap, Err("EACCES"))
  ELSE SetSize(heap, PNode(file.path).id, len)

truncateSync(heap, root, wd, path, len) ==
  truncateFound(heap, lfind(heap, root, wd, path), len)

\* new Stats(node).size
StatsSize(node) ==
  IF node.type # "directory"
  THEN IF node.type # "file" THEN Len(node.content) ELSE node.size
  ELSE Cardinality(DOMAIN node.content)

statFound(heap, path) ==
  IF IsErr(path) THEN path
  ELSE IF IsNull(path) THEN Err("ENOENT")
  ELSE Gave(StatsSize(NodeAt(heap, PNode(path.path))))

statSync(heap, root, wd, path) == statFound(heap, find(heap, root, wd, path))


\* The tree the stand-in is studied on, r being a file of a downloaded package and the
\* manifest mapping dep to ./shim.js for the browser:
\* / = { d/ = { f = r }, f, r, package.json, node_modules/ = {} }
N == Str("n")
R == Str("r")
P_DATA == <<"p">>
Q_DATA == <<"q">>

ShimTree(content) ==
  << makeDirectory(Entries({<<D, Obj(2)>>, <<F, Obj(3)>>, <<R, Obj(4)>>,
                            <<PACKAGE_JSON, Obj(5)>>, <<NODE_MODULES, Obj(6)>>})),
     makeDirectory(Entries({<<F, Obj(4)>>})),
     StringFile(content),
     UnpkgFile(P_DATA),
     JsonFile(Manifest(A, V1, <<>>, BrowserMap(<< <<DEP, Replace(Rel(SHIM))>> >>))),
     makeDirectory(EmptyContent) >>

ShimTrees == { ShimTree(content) : content \in { Q_DATA } }

\* The files the stand-in may create, and the longest content it may build
MaxCreated == 1
MaxContent == 1

\* The filenames handed to the stand-in: f, n, /n, d, m/n
ShimNames == { F, N, Abs(N), D, M \o <<SLASH>> \o N }

\* The working directories of the calls: / and /d/
ShimCwds == { wd \in Cwds(nodes, fsRoot) : PName(wd) # NODE_MODULES }

\* The lengths handed to truncateSync
TruncateLengths == { 0 }

ShimData == { P_DATA }

Bounded(heap) ==
  /\ Len(heap) <= Len(ShimTree(<<>>)) + MaxCreated
  /\ \A i \in 1..Len(heap) :
       (heap[i].type = "file" /\ "size" \in DOMAIN heap[i]) => Len(heap[i].content) <= MaxContent

InitShim ==
  /\ nodes \in ShimTrees
  /\ fsRoot = 1
  /\ trace = NoTrace
  /\ InstallIdle
  /\ LoadIdle

Called(op, wd, filename, data, after) ==
  /\ Bounded(after.heap)
  /\ nodes' = after.heap
  /\ trace' = [op |-> op, cwd |-> wd, spec |-> filename, data |-> data,
               result |-> after.outcome]
  /\ UNCHANGED fsRoot
  /\ UNCHANGED installVars
  /\ UNCHANGED loadVars

ReadFileSync(wd, filename) ==
  Called("readFileSync", wd, filename, <<>>,
         After(nodes, readFileSync(nodes, fsRoot, wd, filename)))

WriteFileSync(wd, filename, data) ==
  Called("writeFileSync", wd, filename, data, writeFileSync(nodes, fsRoot, wd, filename, data))

AppendFileSync(wd, filename, data) ==
  Called("appendFileSync", wd, filename, data,
         appendFileSync(nodes, fsRoot, wd, filename, data))

TruncateSync(wd, filename, len) ==
  Called("truncateSync", wd, filename, len, truncateSync(nodes, fsRoot, wd, filename, len))

StatSync(wd, filename) ==
  Called("statSync", wd, filename, <<>>, After(nodes, statSync(nodes, fsRoot, wd, filename)))

NextShim ==
  \/ \E wd \in ShimCwds, filename \in ShimNames : ReadFileSync(wd, filename)
  \/ \E wd \in ShimCwds, filename \in ShimNames, data \in ShimData :
       WriteFileSync(wd, filename, data)
  \/ \E wd \in ShimCwds, filename \in ShimNames, data \in ShimData :
       AppendFileSync(wd, filename, data)
  \/ \E wd \in ShimCwds, filename \in ShimNames, len \in TruncateLengths :
       TruncateSync(wd, filename, len)
  \/ \E wd \in ShimCwds, filename \in ShimNames : StatSync(wd, filename)
  \/ \E wd \in ShimCwds, id \in { Rel(F), DEP } : Resolve(wd, id)

SpecShim == InitShim /\ [][NextShim]_vars


-----------------------------------------------------------------------------
(* Who changes the tree *)

\* A step of an install run
InstallStep ==
  \/ status' # status
  \/ calls' # calls
  \/ installs' # installs
  \/ pkgCache' # pkgCache

RequireReadsOnly == [][nodes' = nodes /\ fsRoot' = fsRoot]_vars


-----------------------------------------------------------------------------
(* writeFileSync, then readFileSync *)

\* Between `before` and `after` nothing changed but the file at `path` and, in the
\* directory holding it, the entry that names it
OthersKept(before, after, path) ==
  /\ Len(after) >= Len(before)
  /\ \A i \in 1..Len(after) : i > Len(before) => i = PNode(path).id
  /\ \A i \in 1..Len(before) :
       \/ after[i] = before[i]
       \/ i = PNode(path).id
       \/ /\ HasParent(path)
          /\ i = PNode(PParent(path)).id
          /\ after[i].type = before[i].type
          /\ DOMAIN after[i].content = DOMAIN before[i].content \cup { PName(path) }
          /\ \A name \in DOMAIN before[i].content : after[i].content[name] = before[i].content[name]

WriteReturned ==
  /\ trace'.op = "writeFileSync"
  /\ trace'.result = Done

ReadBack ==
  /\ readFileSync(nodes', fsRoot, trace'.cwd, trace'.spec) = Gave(trace'.data)
  /\ OthersKept(nodes, nodes', find(nodes', fsRoot, trace'.cwd, trace'.spec).path)

\* C32: after writeFileSync(p, d) has returned without error, readFileSync(p) returns
\* exactly d and no other entry of the tree has changed, p being an existing writable
\* file or a missing name in an existing directory.
WriteThenRead == [][WriteReturned => ReadBack]_vars

\* The same for the calls that name the file relative to the working directory, or that
\* are made from the root
WriteThenReadRelative ==
  [][(WriteReturned /\ (Len(trace'.cwd) = 1 \/ ~StartsWith(trace'.spec, <<SLASH>>)))
       => ReadBack]_vars

\* writeFileSync created a file that readFileSync reads back
CreatedAndReadBack ==
  /\ trace.op = "writeFileSync"
  /\ trace.result = Done
  /\ Len(nodes) > Len(ShimTree(<<>>))
  /\ readFileSync(nodes, fsRoot, trace.cwd, trace.spec) = Gave(trace.data)


-----------------------------------------------------------------------------
(* The recorded size of a writable file *)

WritableFiles(heap) ==
  { i \in 1..Len(heap) :
      heap[i].type = "file" /\ "size" \in DOMAIN heap[i] /\ isWritableFile(heap[i]) }

\* C38: for every writable file, after any sequence of writeFileSync, appendFileSync and
\* truncateSync calls, the size statSync reports equals the length of the content
\* readFileSync returns.
SizeIsLength ==
  \A i \in WritableFiles(nodes) : StatsSize(nodes[i]) = Len(nodes[i].content)


-----------------------------------------------------------------------------
(* appendFileSync *)

AppendReturned ==
  /\ trace'.op = "appendFileSync"
  /\ trace'.result = Done

\* What readFileSync(p) returned before the call, '' when p did not exist
Previous(read) == IF read.kind = "value" THEN read.value ELSE <<>>

Appended ==
  readFileSync(nodes', fsRoot, trace'.cwd, trace'.spec)
    = Gave(Previous(readFileSync(nodes, fsRoot, trace'.cwd, trace'.spec)) \o trace'.data)

\* C39: after appendFileSync(p, d) has returned without error, the content of p is its
\* previous content followed by d, the previous content being empty when p did not
\* exist: the file is then created and receives d.
AppendThenRead == [][AppendReturned => Appended]_vars

\* The same for the calls that find p
AppendToExisting ==
  [][(AppendReturned /\ IsOk(find(nodes, fsRoot, trace'.cwd, trace'.spec))) => Appended]_vars

\* appendFileSync has appended to a file that existed
AppendedToExisting ==
  /\ trace.op = "appendFileSync"
  /\ trace.result = Done
  /\ readFileSync(nodes, fsRoot, trace.cwd, trace.spec) = Gave(trace.data)


-----------------------------------------------------------------------------
(* Loading: require against resolve *)

\* What resolve gives for `id` from the directory of the file in evaluation
ResolvedFromHere(id) == resolve(nodes, fsRoot, PParent(modules[Top.module].file), id)

\* The module a require step hands to its caller: the one it made, or the one whose
\* exports it returned
Given ==
  IF Len(modules') > Len(modules) THEN Len(modules')
  ELSE returns'[Len(returns')].module

GivenResolved(id) ==
  (/\ Requiring(id)
   /\ ~Includes(id, SLASH)
   /\ IsOk(ResolvedFromHere(id))
   /\ (Len(modules') > Len(modules) \/ Len(returns') > Len(returns)))
    => modules'[Given].filename = PathStr(nodes, ResolvedFromHere(id).path)

\* C33: for every module directory d and every bare id, after any sequence of earlier
\* requires, require(id) from d returns the exports of the module at resolve(root, d, id):
\* two packages that hold different versions of one dependency in their own node_modules
\* each receive their own.
LoadAgreesWithResolve == [][\A id \in RequireIds : GivenResolved(id)]_vars

\* The same for the requires of an id that is no key of the require cache
FirstLoadAgreesWithResolve ==
  [][\A id \in RequireIds : id \notin DOMAIN requireCache => GivenResolved(id)]_vars


-----------------------------------------------------------------------------
(* Loading: files whose evaluation throws *)

T_JS == Str("t") \o JS
X_CSS == <<"x", DOT, "css">>

\* / = { package.json, a.js, b.js, t.js = "throw ...", x.css }
CatchTree(bodyA, bodyB) ==
  << makeDirectory(Entries({<<PACKAGE_JSON, Obj(2)>>, <<A \o JS, Obj(3)>>, <<B \o JS, Obj(4)>>,
                            <<T_JS, Obj(5)>>, <<X_CSS, Obj(6)>>})),
     JsonFile(WithMain(Manifest(A, V1, <<>>, NoBrowser), A \o JS)),
     makeFile(Js(bodyA)),
     makeFile(Js(bodyB)),
     makeFile(Js(<<THROW>>)),
     makeFile(Js(<<>>)) >>

\* What a.js does, statement by statement: ./t and ./x.css throw when they are loaded,
\* ./b as its own body has it
CatchItems ==
  { Try(Rel(Str("t"))), Rel(Str("t")), Try(Rel(X_CSS)), Try(Rel(B)), Rel(B) }

CatchBodies ==
  { <<i>> : i \in CatchItems } \cup { <<i, j>> : i, j \in CatchItems }
    \cup { <<i, j, k>> : i, j, k \in CatchItems }

CatchTrees ==
  { CatchTree(bodyA, bodyB) :
      bodyA \in CatchBodies,
      bodyB \in { <<>>, <<Rel(Str("t"))>>, <<Try(Rel(Str("t")))>>, <<Rel(X_CSS)>> } }

InitCatch ==
  /\ nodes \in CatchTrees
  /\ fsRoot = 1
  /\ trace = NoTrace
  /\ InstallIdle
  /\ LoadIdle

NextCatch ==
  \/ Bootstrap(<<>>)
  \/ Require
  \/ Return
  \/ Throw

SpecCatch == InitCatch /\ [][NextCatch]_vars

\* The modules require made whose evaluation has thrown: invoked, not loaded, and no
\* longer in evaluation
InEvaluation(frames) == { frames[i].module : i \in 1..Len(frames) }
Failed(frames, mods) ==
  { m \in 1..Len(mods) :
      /\ mods[m].parent # 0
      /\ \E i \in 1..Len(invoked) : invoked[i] = m
      /\ ~mods[m].loaded
      /\ m \notin InEvaluation(frames) }

\* A module whose evaluation has thrown stays in the require cache under its filename
FailedStaysRegistered ==
  \A m \in Failed(stack, modules) :
    /\ modules[m].filename \in DOMAIN requireCache
    /\ requireCache[modules[m].filename] = m

\* Where a module has just failed, the Error went to the requires that were waiting:
\* bootstrap has thrown, or the file now in evaluation has caught it around its require
Propagates ==
  (booted.state = "running" /\ Failed(stack', modules') # Failed(stack, modules)) =>
    \/ stack' = <<>> /\ booted'.state = "threw"
    \/ /\ stack' # <<>>
       /\ booted' = booted
       /\ stack'[Len(stack')].pc > 1
       /\ IsTry(PContent(nodes, modules[stack'[Len(stack')].module].file)
                  .body[stack'[Len(stack')].pc - 1])

\* A require that resolves to the file of a failed module returns that module's exports:
\* no module is made, nothing is invoked, nothing is thrown
ServedPartial ==
  (/\ booted.state = "running"
   /\ stack # <<>>
   /\ Top.pc <= Len(Body(Top.module))
   /\ Body(Top.module)[Top.pc] # THROW
   /\ IsOk(ResolvedFromHere(IdOf(Body(Top.module)[Top.pc])))
   /\ PathStr(nodes, ResolvedFromHere(IdOf(Body(Top.module)[Top.pc])).path) \in DOMAIN requireCache
   /\ requireCache[PathStr(nodes, ResolvedFromHere(IdOf(Body(Top.module)[Top.pc])).path)]
        \in Failed(stack, modules)
   /\ stack' # stack) =>
    /\ modules' = modules
    /\ invoked' = invoked
    /\ requireCache' = requireCache
    /\ booted' = booted
    /\ returns' = Append(returns, Returned(stack, modules,
         requireCache[PathStr(nodes, ResolvedFromHere(IdOf(Body(Top.module)[Top.pc])).path)]))
    /\ ~returns'[Len(returns')].loaded

\* C34: if the evaluator throws while loading p, be it a runtime error or an unsupported
\* extension, the Error propagates to the requiring code, p's module stays in the require
\* cache with loaded = false, and a later require that resolves to p returns its partial
\* exports without invoking the evaluator again and without raising.
FailedModuleServed == []FailedStaysRegistered /\ [][Propagates /\ ServedPartial]_vars

\* a.js has caught the Error of a module and has then been given that module by a second
\* require, not loaded
PartialExportsReturned ==
  /\ booted.state = "running"
  /\ returns # <<>>
  /\ returns[Len(returns)].module \in Failed(stack, modules)
  /\ ~returns[Len(returns)].loaded
  /\ requireCache[modules[returns[Len(returns)].module].filename] = returns[Len(returns)].module

\* The same where the file has an extension no evaluator is registered for
UnsupportedExtensionFailed ==
  /\ booted.state = "running"
  /\ \E m \in Failed(stack, modules) : modules[m].filename = <<SLASH>> \o X_CSS


-----------------------------------------------------------------------------
(* install: after the promise has settled *)

\* No directory or file that exists has changed (a FileSystem that was fetched and is not
\* grafted is no part of the tree)
TreeKept ==
  /\ Len(nodes') >= Len(nodes)
  /\ \A i \in 1..Len(nodes) : nodes'[i] = nodes[i]

InstallSettled == status \in {"fulfilled", "rejected"}

\* C35: once the promise install returned has settled, no step changes the tree and no
\* step calls fetchRemote: in particular no fetch of a sibling that resolves after a
\* rejection grafts its result.
QuietOnceSettled == [][InstallSettled => TreeKept /\ fetched' = fetched]_vars

\* The same once the promise is fulfilled
QuietOnceFulfilled == [][status = "fulfilled" => TreeKept /\ fetched' = fetched]_vars

\* install's promise is fulfilled while the installer has nothing pending
FulfilledAndIdle ==
  /\ status = "fulfilled"
  /\ installs > 1
  /\ fetched > 0


-----------------------------------------------------------------------------
(* install, run again on the tree it has installed *)

\* What is kept of the first run when the second begins
SecondRun(tree, count) ==
  [op |-> "install", cwd |-> <<>>, spec |-> <<>>, result |-> Null,
   tree |-> tree, fetched |-> count]

\* install(root, makeRoot(root), installer) once more, after the promise of the first run
\* is fulfilled, up to its first await
Reinstall ==
  /\ status = "fulfilled"
  /\ trace.op = "none"
  /\ StartInstallWith(InstallSync(nodes, fsRoot, makeRoot(fsRoot)))
  /\ Issued(DownloadCalls(installer, calls', 1, [cache |-> pkgCache, fetched |-> fetched]))
  /\ installs' = 1
  /\ trace' = SecondRun(nodes, fetched)
  /\ UNCHANGED <<fsRoot, registry, installer, fetchFailed>>
  /\ UNCHANGED loadVars

NextReinstall ==
  \/ NextInstall
  \/ Reinstall

\* A dependency given by a repository, "g": "u/r", besides the graphs studied so far
G == Str("g")
REPOSITORY == <<"u", SLASH, "r">>
PkgG == <<G, REPOSITORY>>
RepositoryRegistry ==
  (PkgA :> Manifest(A, V1, <<PkgG>>, NoBrowser)) @@
  (PkgB :> Manifest(B, V1, <<>>, NoBrowser)) @@
  (PkgB2 :> Manifest(B, V2, <<>>, NoBrowser)) @@
  (PkgC :> Manifest(Str("c"), V1, <<>>, NoBrowser)) @@
  (PkgG :> Manifest(G, V1, <<PkgC>>, NoBrowser))

InitReinstall ==
  /\ registry \in Registries \cup { RepositoryRegistry }
  /\ installer \in {"fresh", "cached"}
  /\ nodes \in RootTrees(registry)
  /\ fsRoot = 1
  /\ pkgCache = <<>>
  /\ trace = NoTrace
  /\ calls = <<>>
  /\ status = "idle"
  /\ fetched = 0
  /\ installs = 0
  /\ fetchFailed = FALSE
  /\ LoadIdle

SpecReinstall == InitReinstall /\ [][NextReinstall]_vars

InSecondRun == trace.op = "install"

NothingAwaited ==
  \A c \in 1..Len(calls) : \A k \in 1..Len(calls[c].slots) :
    calls[c].slots[k].state \in {"resolved", "skipped"}

\* C36: install is idempotent on a completely installed tree: a second run on the same
\* root calls fetchRemote for nothing, is not rejected and awaits no fetch, so that it
\* resolves, and leaves every directory with the same entries, the same nodes and alias
\* symlinks with the same targets.
InstallIdempotent ==
  InSecondRun =>
    /\ fetched = trace.fetched
    /\ nodes = trace.tree
    /\ status \in {"running", "fulfilled"}
    /\ NothingAwaited

\* The same for the dependency graphs whose version constraints hold no '/'
PlainVersions ==
  \A key \in DOMAIN registry : \A i \in 1..Len(registry[key].dependencies) :
    ~Includes(registry[key].dependencies[i][2], SLASH)

InstallIdempotentPlainVersions == PlainVersions => InstallIdempotent

\* The second run on a tree with nested dependencies is fulfilled
SecondRunFulfilled ==
  /\ InSecondRun
  /\ status = "fulfilled"
  /\ installs > 2
  /\ fetched > 1


-----------------------------------------------------------------------------
(* install: calls of the installer for one node_modules directory *)

\* The installer calls that are awaited: call c, slot k
Awaited ==
  { ck \in { <<c, k>> : c \in 1..Len(calls), k \in 1..MaxFetches } :
      /\ ck[2] <= Len(calls[ck[1]].slots)
      /\ calls[ck[1]].slots[ck[2]].state = "pending" }

SameRequest(x, y) ==
  /\ PNode(calls[x[1]].nm) = PNode(calls[y[1]].nm)
  /\ QualifiedId(calls[x[1]].slots[x[2]].name, calls[x[1]].slots[x[2]].version)
       = QualifiedId(calls[y[1]].slots[y[2]].name, calls[y[1]].slots[y[2]].version)

\* C37: under every interleaving of the install calls that share one FileSystem, also
\* when two of them run on one directory because the same fetched root was grafted in two
\* places, the installer is called at most once for a qualified identifier of a
\* node_modules directory: no two awaited calls are for the same identifier of the same
\* directory.
OneFetchPerEntry == \A x, y \in Awaited : SameRequest(x, y) => x = y

\* The same for the installer that returns a FileSystem of its own at every call
OneFetchPerEntryFresh == installer = "fresh" => OneFetchPerEntry

\* Two install calls run on one node_modules directory
SharedDirectoryInstalled ==
  \E c, d \in 1..Len(calls) : c # d /\ PNode(calls[c].nm) = PNode(calls[d].nm)

=============================================================================
